---- MODULE Spec2Model ----
(***************************************************************************)
(* Multi-chain wallet bot: the chain adapters (TransactionManager,         *)
(* BalanceChecker), the key vault and wallet directory (SupabaseManager,   *)
(* WalletManager) and the command handlers of main.py, as a state machine  *)
(* over the chain nodes the adapters talk to.                              *)
(***************************************************************************)
EXTENDS Integers, Sequences, FiniteSets, TLC

(***************************************************************************)
(* Text.  A string the code compares, case-folds or formats is a sequence  *)
(* of one-character strings, so that "ETHEREUM" and "ethereum" differ      *)
(* exactly as they do for Python's == and `in`.                            *)
(***************************************************************************)
Lowers == <<"a", "b", "c", "d", "e", "g", "h", "i", "l", "m", "n", "o", "p", "r", "s", "t", "u", "y">>
Uppers == <<"A", "B", "C", "D", "E", "G", "H", "I", "L", "M", "N", "O", "P", "R", "S", "T", "U", "Y">>

LowerChar(c) ==
    IF \E i \in DOMAIN Uppers : Uppers[i] = c
    THEN Lowers[CHOOSE i \in DOMAIN Uppers : Uppers[i] = c]
    ELSE c

UpperChar(c) ==
    IF \E i \in DOMAIN Lowers : Lowers[i] = c
    THEN Uppers[CHOOSE i \in DOMAIN Lowers : Lowers[i] = c]
    ELSE c

\* str.lower()
Lower(s) == [i \in DOMAIN s |-> LowerChar(s[i])]

\* str.upper()
Upper(s) == [i \in DOMAIN s |-> UpperChar(s[i])]

\* str.capitalize()
Capitalize(s) == [i \in DOMAIN s |-> IF i = 1 THEN UpperChar(s[i]) ELSE LowerChar(s[i])]

ethereum == <<"e", "t", "h", "e", "r", "e", "u", "m">>
base == <<"b", "a", "s", "e">>
bsc == <<"b", "s", "c">>
polygon == <<"p", "o", "l", "y", "g", "o", "n">>
solana == <<"s", "o", "l", "a", "n", "a">>
dogecoin == <<"d", "o", "g", "e", "c", "o", "i", "n">>

\* The keys of self.rpc_endpoints / self.web3_connections: Web3(HTTPProvider(..))
\* opens no connection, so every configured endpoint gets its entry.
web3_connections == {ethereum, base, bsc, polygon}

\* The chains the bot announces as supported (help text and usage messages).
SupportedChains == web3_connections \cup {solana}

\* Chain arguments a caller may pass: the configured identifiers, their
\* upper-case and capitalised spellings, and strings naming no chain.
ChainInputs ==
    SupportedChains \cup {Upper(c) : c \in SupportedChains}
        \cup {Capitalize(c) : c \in SupportedChains} \cup {dogecoin, <<>>}

(***************************************************************************)
(* Integers wider than the checker's machine word: a non-negative value is *)
(* hi * 10^9 + lo with 0 <= lo < 10^9 (Python integers are unbounded).     *)
(***************************************************************************)
Base == 10 ^ 9

W(hi, lo) == [hi |-> hi, lo |-> lo]

WZero == W(0, 0)

WAddSmall(a, n) == W(a.hi + ((a.lo + n) \div Base), (a.lo + n) % Base)

\* a - n for a >= n
WSubSmall(a, n) ==
    IF a.lo >= n THEN W(a.hi, a.lo - n) ELSE W(a.hi - 1, a.lo + Base - n)

\* a - b for a >= b
WSub(a, b) ==
    IF a.lo >= b.lo THEN W(a.hi - b.hi, a.lo - b.lo)
    ELSE W(a.hi - b.hi - 1, a.lo + Base - b.lo)

WLess(a, b) == a.hi < b.hi \/ (a.hi = b.hi /\ a.lo < b.lo)

WLeq(a, b) == a = b \/ WLess(a, b)

\* m * 10^p for a small m and 0 <= p <= 18
WScale(m, p) ==
    IF p >= 9 THEN W(m * (10 ^ (p - 9)), 0)
    ELSE W((m * (10 ^ p)) \div Base, (m * (10 ^ p)) % Base)

(***************************************************************************)
(* Amounts.  A caller's decimal amount is m * 10^-e; web3.to_wei(amount,   *)
(* 'ether') scales it by 10^18 in decimal arithmetic and truncates.        *)
(***************************************************************************)
Amt(m, e) == [m |-> m, e |-> e]

to_wei(amount) ==
    IF amount.e <= 18 THEN WScale(amount.m, 18 - amount.e)
    ELSE W(0, amount.m \div (10 ^ (amount.e - 18)))

\* Error messages: the fixed text and, for the f-strings, the interpolated chain.
Err(msg, arg) == [msg |-> msg, arg |-> arg]

\* str(e) of a raised exception
StrE(msg) == Err(msg, <<>>)

(***************************************************************************)
(* Bounds of the model                                                     *)
(***************************************************************************)
\* the chain head grows to at most this height
MaxHead == 2

\* transactions the bot submits
MaxSends == 1

(***************************************************************************)
(* Inputs                                                                  *)
(***************************************************************************)
\* Private keys: one well-formed 32-byte scalar, one malformed string.
KeyInputs == {"k1", "zz"}

\* Account.from_key(key).address; "" stands for the exception on a malformed key
KeyAddress(key) == IF key = "k1" THEN "0xA1" ELSE ""

\* Addresses: the bot's own account, a contract with code, and a string that
\* is no address.
AddrInputs == {"0xA1", "0xC3", "nothex"}

\* web3.is_address
is_address(a) == a \in {"0xA1", "0xB2", "0xC3", "0xT1", "0xE0"}

\* Token contracts: "0xT1" implements the ERC-20 interface, "0xE0" has no code.
TokenInputs == {"0xT1", "0xE0"}

\* decimals() and symbol() of the deployed token
TokenDecimals == 6

\* Decimal amounts: 0.5 and 2
AmountInputs == {Amt(5, 1), Amt(2, 0)}

\* Funds of the account 0xA1: nothing, or one ether
BalanceValues == {WZero, WScale(1, 18)}

\* Unit prices a node quotes
GasPrices == {1, 2}

\* Identifiers of transactions of other parties: the chains may include the
\* first, the second is one no chain ever holds.
ExtTx(n) == [origin |-> "ext", n |-> n]

TxInputs == {ExtTx(1), ExtTx(2)}

\* Lamport balances the non-EVM node reports
LamportValues == {0, 5000}

\* Two /send commands handled side by side
Senders == {"s1", "s2"}

NoSend == [pc |-> "idle", tx |-> ExtTx(0), error |-> ""]

\* main() is entered: no thread has run
Booting ==
    [bot |-> "setup_application", http |-> "sleep",
     handler |-> "idle", worker |-> "none", work |-> "none", seen |-> "None",
     timed_out |-> FALSE, status |-> 0]

(***************************************************************************)
(* State                                                                   *)
(***************************************************************************)
VARIABLES
    head,       \* height of the chain head the nodes report
    ledger,     \* included transactions: [tx, chain, block, ok, gas]
    mempool,    \* submitted transactions not yet included: [tx, chain]
    balance,    \* funds of the account 0xA1, in wei
    nonce,      \* next sequence number of the account 0xA1
    call,       \* the adapter call in progress or last completed: [op, pc, ...]
    result,     \* the envelope the last completed call returned
    effects,    \* what the call did: "rpc", "contract_call", "sign", "send_raw"
    users,      \* telegram ids with a row in the users table
    wallets,    \* rows of the wallets table
    encryption_key, \* the Fernet key of the running process
    sqlite_wallets, \* rows of WalletManager's wallets table, in insertion order
    transactions,   \* rows of the transactions table
    sends,      \* the sends running side by side: sender -> [pc, tx, error]
    application,    \* the global of main.py: "None", or the Application's state
    webhook     \* the threads of main(): [bot, http, handler, worker, ...]

vars == <<head, ledger, mempool, balance, nonce, call, result, effects,
          users, wallets, encryption_key, sqlite_wallets,
          transactions, sends, application, webhook>>

chainVars == <<head, ledger, mempool, balance, nonce>>

dbVars == <<users, wallets, encryption_key, sqlite_wallets>>

\* the transactions table, the concurrent sends and the webhook host
hostVars == <<transactions, sends, application, webhook>>

NoResult == [none |-> TRUE]

\* What a node answers to the calls of one handler: up = FALSE makes the
\* first JSON-RPC request raise a connection error.
Net(up) ==
    [up |-> up, head |-> head, ledger |-> ledger, mempool |-> mempool,
     balance |-> balance, nonce |-> nonce]

\* eth.get_balance(address)
NodeBalance(net, address) == IF address = "0xA1" THEN net.balance ELSE WZero

ConnectionError == StrE("HTTPSConnectionPool: Max retries exceeded")

Fail(err) == [success |-> FALSE, error |-> err]

Out(ret, eff) == [ret |-> ret, eff |-> eff]

UnsupportedChain(chain) == Fail(Err("Unsupported chain: ", chain))

\* web3.from_wei(w, 'ether'): the decimal w * 10^-18
from_wei(w) == [wei |-> w, e |-> 18]

(***************************************************************************)
(* BalanceChecker                                                          *)
(***************************************************************************)
symbols(chain) ==
    IF chain = bsc THEN "BNB" ELSE IF chain = polygon THEN "MATIC" ELSE "ETH"

get_eth_balance(address, chain, net) ==
    IF chain \notin web3_connections THEN Out(UnsupportedChain(chain), {})
    ELSE IF ~is_address(address) THEN Out(Fail(Err("Invalid address", <<>>)), {})
    ELSE IF ~net.up THEN Out(Fail(ConnectionError), {"rpc"})
    ELSE Out([success |-> TRUE,
              balance_eth |-> from_wei(NodeBalance(net, address)),
              balance_wei |-> NodeBalance(net, address),
              symbol |-> symbols(chain),
              chain |-> chain,
              address |-> address], {"rpc"})

\* response: what solana_client.get_balance gave: it raised, or answered
\* without a 'result', or with {'result': {'value': lamports}}
SolBalanceResponses ==
    {[kind |-> "raise"], [kind |-> "error"]}
        \cup {[kind |-> "result", value |-> v] : v \in LamportValues}

\* get_sol_balance taking an answer of 0 lamports for no answer
get_sol_balance_truthy(address, response) ==
    IF response.kind = "raise" THEN Out(Fail(ConnectionError), {"rpc"})
    ELSE IF response.kind = "result" /\ response.value # 0
    THEN Out([success |-> TRUE,
              balance_sol |-> [lamports |-> response.value, e |-> 9],
              balance_lamports |-> response.value,
              symbol |-> "SOL",
              chain |-> solana,
              address |-> address], {"rpc"})
    ELSE Out(Fail(Err("Failed to get Solana balance", <<>>)), {"rpc"})

get_sol_balance(address, response) ==
    IF response.kind = "raise" THEN Out(Fail(ConnectionError), {"rpc"})
    ELSE IF response.kind = "result"
    THEN Out([success |-> TRUE,
              balance_sol |-> [lamports |-> response.value, e |-> 9],
              balance_lamports |-> response.value,
              symbol |-> "SOL",
              chain |-> solana,
              address |-> address], {"rpc"})
    ELSE Out(Fail(Err("Failed to get Solana balance", <<>>)), {"rpc"})

\* raw: balanceOf(wallet_address) as the token contract holds it
get_token_balance(wallet_address, token_address, chain, net, raw) ==
    IF chain \notin web3_connections THEN Out(UnsupportedChain(chain), {})
    ELSE IF ~is_address(wallet_address)
    THEN Out(Fail(StrE("Could not identify the intended function with name balanceOf")), {})
    ELSE IF ~net.up THEN Out(Fail(ConnectionError), {"rpc", "contract_call"})
    ELSE IF token_address # "0xT1"
    THEN Out(Fail(StrE("Could not transact with/call contract function")),
             {"rpc", "contract_call"})
    ELSE Out([success |-> TRUE,
              balance |-> [raw |-> raw, e |-> TokenDecimals],
              balance_raw |-> raw,
              symbol |-> "TKN",
              decimals |-> TokenDecimals,
              token_address |-> token_address,
              chain |-> chain], {"rpc", "contract_call"})

get_all_balances(wallet_address, chain, net, response) ==
    LET native == IF chain = solana THEN get_sol_balance(wallet_address, response)
                  ELSE get_eth_balance(wallet_address, chain, net)
    IN  Out([success |-> TRUE,
             balances |-> [native |-> native.ret, tokens |-> <<>>,
                           chain |-> chain, address |-> wallet_address]],
            native.eff)

(***************************************************************************)
(* The EVM node, as the adapters see it                                    *)
(***************************************************************************)
\* the gas a plain value transfer costs, and what a recipient with code adds
IntrinsicGas == 21000

ContractExtraGas == 2300

NodeGas(to) == IF to = "0xC3" THEN IntrinsicGas + ContractExtraGas ELSE IntrinsicGas

\* eth.estimate_gas(transaction): has_price tells whether the skeleton carries
\* a gasPrice, which makes the node cap the gas by what the sender can pay.
\* The answer is [err |-> "" , gas |-> n] or [err |-> message, gas |-> 0].
NodeEstimateGas(net, from, to, value, has_price, price) ==
    LET funds == NodeBalance(net, from)
        need == WAddSmall(value, NodeGas(to) * price)
    IN  IF WLess(funds, value)
        THEN [err |-> "insufficient funds for transfer", gas |-> 0]
        ELSE IF has_price /\ WLess(funds, need)
        THEN [err |-> "gas required exceeds allowance", gas |-> 0]
        ELSE [err |-> "", gas |-> NodeGas(to)]

\* The hash of a signed transaction identifies its content.
EvmTx(from, to, value, gas, gasPrice, n, data) ==
    [from |-> from, to |-> to, value |-> value, gas |-> gas,
     gasPrice |-> gasPrice, nonce |-> n, data |-> data]

NoData == [to |-> "", amount_raw |-> 0]

\* eth.send_raw_transaction: "" when the node takes the transaction into its
\* pool, else the message of the error it answers with.
NodeAccept(net, tx, chain) ==
    IF tx.nonce < net.nonce THEN "nonce too low"
    ELSE IF [tx |-> tx, chain |-> chain] \in net.mempool THEN "already known"
    ELSE IF \E p \in net.mempool : p.chain = chain /\ p.tx.from = tx.from /\ p.tx.nonce = tx.nonce
    THEN "replacement transaction underpriced"
    ELSE IF WLess(NodeBalance(net, tx.from), WAddSmall(tx.value, tx.gas * tx.gasPrice))
    THEN "insufficient funds for gas * price + value"
    ELSE ""

\* eth.get_transaction_receipt / solana get_transaction: the entry of the
\* ledger, if the chain included the transaction.  For a transaction the
\* chain does not hold, the client library either answers with nothing
\* (style "none") or raises (style "raise").
LookupStyles == {"none", "raise"}

NodeLookup(net, tx_hash, chain, style) ==
    IF ~net.up THEN [kind |-> "raise", msg |-> ConnectionError.msg]
    ELSE IF \E r \in net.ledger : r.tx = tx_hash /\ r.chain = chain
    THEN [kind |-> "found",
          entry |-> CHOOSE r \in net.ledger : r.tx = tx_hash /\ r.chain = chain]
    ELSE IF style = "raise"
    THEN [kind |-> "raise", msg |-> "Transaction with hash not found"]
    ELSE [kind |-> "none"]

\* eth.block_number
NodeBlockNumber(net) ==
    IF net.up THEN [kind |-> "ok", value |-> net.head]
    ELSE [kind |-> "raise", msg |-> ConnectionError.msg]

(***************************************************************************)
(* TransactionManager                                                      *)
(***************************************************************************)
get_deposit_address(wallet_address, chain) ==
    IF chain = solana
    THEN Out([success |-> TRUE, deposit_address |-> wallet_address, chain |-> chain,
              note |-> Err("Send SOL to this address", <<>>)], {})
    ELSE IF chain \in web3_connections
    THEN Out([success |-> TRUE, deposit_address |-> wallet_address, chain |-> chain,
              note |-> Err("Send {} to this address", Upper(chain))], {})
    ELSE Out(UnsupportedChain(chain), {})

\* int(amount * 10 ** decimals)
int_scaled(amount, decimals) ==
    IF amount.e <= decimals THEN amount.m * (10 ^ (decimals - amount.e))
    ELSE amount.m \div (10 ^ (amount.e - decimals))

\* What a send did up to and including eth.send_raw_transaction: ret is the
\* envelope it returned early, or NoResult with sub = {tx} once the
\* transaction is submitted and the call waits for its receipt.
Sent(ret, eff, sub) == [ret |-> ret, eff |-> eff, sub |-> sub]

\* send_native_token going on to sign and send whatever the estimate said
send_native_token_unestimated(from_private_key, to_address, amount, chain, net, gas_price) ==
    LET from_address == KeyAddress(from_private_key)
        amount_wei == to_wei(amount)
        gas_estimate == NodeEstimateGas(net, from_address, to_address, amount_wei, FALSE, 0)
        transaction == EvmTx(from_address, to_address, amount_wei, gas_estimate.gas,
                             gas_price, net.nonce, NoData)
        refusal == NodeAccept(net, transaction, chain)
    IN  IF chain \notin web3_connections THEN Sent(UnsupportedChain(chain), {}, {})
        ELSE IF from_address = ""
        THEN Sent(Fail(StrE("The private key must be exactly 32 bytes long")), {}, {})
        ELSE IF ~is_address(to_address)
        THEN Sent(Fail(Err("Invalid recipient address", <<>>)), {}, {})
        ELSE IF ~net.up THEN Sent(Fail(ConnectionError), {"rpc"}, {})
        ELSE IF refusal # ""
        THEN Sent(Fail(StrE(refusal)), {"rpc", "sign", "send_raw"}, {})
        ELSE Sent(NoResult, {"rpc", "sign", "send_raw"}, {transaction})

send_native_token(from_private_key, to_address, amount, chain, net, gas_price) ==
    LET from_address == KeyAddress(from_private_key)
        amount_wei == to_wei(amount)
        gas_estimate == NodeEstimateGas(net, from_address, to_address, amount_wei, FALSE, 0)
        transaction == EvmTx(from_address, to_address, amount_wei, gas_estimate.gas,
                             gas_price, net.nonce, NoData)
        refusal == NodeAccept(net, transaction, chain)
    IN  IF chain \notin web3_connections THEN Sent(UnsupportedChain(chain), {}, {})
        ELSE IF from_address = ""
        THEN Sent(Fail(StrE("The private key must be exactly 32 bytes long")), {}, {})
        ELSE IF ~is_address(to_address)
        THEN Sent(Fail(Err("Invalid recipient address", <<>>)), {}, {})
        ELSE IF ~net.up THEN Sent(Fail(ConnectionError), {"rpc"}, {})
        ELSE IF gas_estimate.err # "" THEN Sent(Fail(StrE(gas_estimate.err)), {"rpc"}, {})
        ELSE IF refusal # ""
        THEN Sent(Fail(StrE(refusal)), {"rpc", "sign", "send_raw"}, {})
        ELSE Sent(NoResult, {"rpc", "sign", "send_raw"}, {transaction})

TokenGasLimit == 100000

send_token(from_private_key, to_address, token_address, amount, chain, net, gas_price) ==
    LET from_address == KeyAddress(from_private_key)
        amount_raw == int_scaled(amount, TokenDecimals)
        transaction == EvmTx(from_address, token_address, WZero, TokenGasLimit, gas_price,
                             net.nonce, [to |-> to_address, amount_raw |-> amount_raw])
        refusal == NodeAccept(net, transaction, chain)
    IN  IF chain \notin web3_connections THEN Sent(UnsupportedChain(chain), {}, {})
        ELSE IF ~is_address(token_address)
        THEN Sent(Fail(StrE("Address has an invalid EIP-55 checksum")), {}, {})
        ELSE IF ~net.up THEN Sent(Fail(ConnectionError), {"rpc", "contract_call"}, {})
        ELSE IF token_address # "0xT1"
        THEN Sent(Fail(StrE("Could not transact with/call contract function")),
                  {"rpc", "contract_call"}, {})
        ELSE IF from_address = ""
        THEN Sent(Fail(StrE("The private key must be exactly 32 bytes long")),
                  {"rpc", "contract_call"}, {})
        ELSE IF ~is_address(to_address)
        THEN Sent(Fail(StrE("Could not identify the intended function with name transfer")),
                  {"rpc", "contract_call"}, {})
        ELSE IF refusal # ""
        THEN Sent(Fail(StrE(refusal)), {"rpc", "contract_call", "sign", "send_raw"}, {})
        ELSE Sent(NoResult, {"rpc", "contract_call", "sign", "send_raw"}, {transaction})

\* The envelope a send returns once web3.eth.wait_for_transaction_receipt
\* gave the receipt of its transaction.
\* send_native_token reporting every included transaction as confirmed
send_native_token_receipt_confirmed(c, tx_receipt) ==
    [success |-> TRUE,
     tx_hash |-> c.tx_hash,
     from_address |-> c.tx_hash.from,
     to_address |-> c.to_address,
     amount |-> c.amount,
     gas_used |-> tx_receipt.gas,
     gas_price |-> c.tx_hash.gasPrice,
     total_cost |-> tx_receipt.gas * c.tx_hash.gasPrice,
     status |-> "confirmed",
     block_number |-> tx_receipt.block]

send_native_token_receipt(c, tx_receipt) ==
    [success |-> TRUE,
     tx_hash |-> c.tx_hash,
     from_address |-> c.tx_hash.from,
     to_address |-> c.to_address,
     amount |-> c.amount,
     gas_used |-> tx_receipt.gas,
     gas_price |-> c.tx_hash.gasPrice,
     total_cost |-> tx_receipt.gas * c.tx_hash.gasPrice,
     status |-> IF tx_receipt.ok THEN "confirmed" ELSE "failed",
     block_number |-> tx_receipt.block]

send_token_receipt(c, tx_receipt) ==
    [success |-> TRUE,
     tx_hash |-> c.tx_hash,
     from_address |-> c.tx_hash.from,
     to_address |-> c.to_address,
     token_address |-> c.token_address,
     token_symbol |-> "TKN",
     amount |-> c.amount,
     amount_raw |-> c.tx_hash.data.amount_raw,
     gas_used |-> tx_receipt.gas,
     status |-> IF tx_receipt.ok THEN "confirmed" ELSE "failed",
     block_number |-> tx_receipt.block]

\* response: what building and solana_client.send_transaction gave: an
\* exception, an answer without 'result', or {'result': signature}
SolSendResponses == {"raise", "error", "result"}

SolSignature == [origin |-> "sol", n |-> 0]

send_sol(from_private_key, to_address, amount, response) ==
    LET amount_lamports == int_scaled(amount, 9)
    IN  IF response = "raise" THEN Out(Fail(StrE("No signers")), {"rpc"})
        ELSE IF response = "result"
        THEN Out([success |-> TRUE,
                  tx_hash |-> SolSignature,
                  from_address |-> from_private_key,
                  to_address |-> to_address,
                  amount |-> amount,
                  amount_lamports |-> amount_lamports,
                  status |-> "sent"], {"rpc", "send_raw"})
        ELSE Out(Fail(Err("Failed to send SOL transaction", <<>>)), {"rpc", "send_raw"})

\* token_address = "" is Python's None: the native transfer
estimate_gas(from_address, to_address, amount, chain, token_address, net, price1, price2) ==
    LET amount_wei == to_wei(amount)
        estimated == NodeEstimateGas(net, from_address, to_address, amount_wei, TRUE, price1)
        total_cost == estimated.gas * price2
    IN  IF chain \notin web3_connections THEN Out(UnsupportedChain(chain), {})
        ELSE IF token_address # ""
        THEN Out(Fail(StrE("The function 'decimals' was not found in this contract's abi")), {})
        ELSE IF ~net.up THEN Out(Fail(ConnectionError), {"rpc"})
        ELSE IF ~is_address(from_address) \/ ~is_address(to_address)
        THEN Out(Fail(StrE("invalid address")), {"rpc"})
        ELSE IF estimated.err # "" THEN Out(Fail(StrE(estimated.err)), {"rpc"})
        ELSE Out([success |-> TRUE,
                  estimated_gas |-> estimated.gas,
                  gas_price |-> price2,
                  total_cost_wei |-> total_cost,
                  total_cost_eth |-> from_wei(W(0, total_cost)),
                  transaction_type |-> "native"], {"rpc"})

BalanceChecker_estimate_gas(from_address, to_address, value, chain, net, price1, price2) ==
    LET estimated == NodeEstimateGas(net, from_address, to_address, value, TRUE, price1)
        total_cost == estimated.gas * price2
    IN  IF chain \notin web3_connections THEN Out(UnsupportedChain(chain), {})
        ELSE IF ~net.up THEN Out(Fail(ConnectionError), {"rpc"})
        ELSE IF ~is_address(from_address) \/ ~is_address(to_address)
        THEN Out(Fail(StrE("invalid address")), {"rpc"})
        ELSE IF estimated.err # "" THEN Out(Fail(StrE(estimated.err)), {"rpc"})
        ELSE Out([success |-> TRUE,
                  estimated_gas |-> estimated.gas,
                  gas_price |-> price2,
                  total_cost_wei |-> total_cost,
                  total_cost_eth |-> from_wei(W(0, total_cost))], {"rpc"})

\* get_transaction_status reporting a missing transaction as pending
get_transaction_status_pending(tx_hash, chain, lookup, current_block) ==
    IF chain = solana
    THEN IF lookup.kind = "raise" THEN Out(Fail(StrE(lookup.msg)), {"rpc"})
         ELSE IF lookup.kind = "found"
         THEN Out([success |-> TRUE,
                   tx_hash |-> tx_hash,
                   status |-> IF lookup.entry.ok THEN "confirmed" ELSE "failed",
                   block_number |-> lookup.entry.block,
                   confirmations |-> 1,
                   fee |-> lookup.entry.gas], {"rpc"})
         ELSE Out([success |-> TRUE, tx_hash |-> tx_hash, status |-> "pending"], {"rpc"})
    ELSE IF chain \in web3_connections
    THEN IF lookup.kind = "raise" THEN Out(Fail(StrE(lookup.msg)), {"rpc"})
         ELSE IF lookup.kind = "found"
         THEN IF current_block.kind = "raise"
              THEN Out(Fail(StrE(current_block.msg)), {"rpc"})
              ELSE Out([success |-> TRUE,
                        tx_hash |-> tx_hash,
                        status |-> IF lookup.entry.ok THEN "confirmed" ELSE "failed",
                        block_number |-> lookup.entry.block,
                        confirmations |-> current_block.value - lookup.entry.block,
                        gas_used |-> lookup.entry.gas,
                        effective_gas_price |-> lookup.entry.price], {"rpc"})
         ELSE Out([success |-> TRUE, tx_hash |-> tx_hash, status |-> "pending"], {"rpc"})
    ELSE Out(UnsupportedChain(chain), {})

\* get_transaction_status subtracting the heights the wrong way round
get_transaction_status_reversed(tx_hash, chain, lookup, current_block) ==
    IF chain = solana
    THEN IF lookup.kind = "raise" THEN Out(Fail(StrE(lookup.msg)), {"rpc"})
         ELSE IF lookup.kind = "found"
         THEN Out([success |-> TRUE,
                   tx_hash |-> tx_hash,
                   status |-> IF lookup.entry.ok THEN "confirmed" ELSE "failed",
                   block_number |-> lookup.entry.block,
                   confirmations |-> 1,
                   fee |-> lookup.entry.gas], {"rpc"})
         ELSE Out(Fail(Err("Transaction not found", <<>>)), {"rpc"})
    ELSE IF chain \in web3_connections
    THEN IF lookup.kind = "raise" THEN Out(Fail(StrE(lookup.msg)), {"rpc"})
         ELSE IF lookup.kind = "found"
         THEN IF current_block.kind = "raise"
              THEN Out(Fail(StrE(current_block.msg)), {"rpc"})
              ELSE Out([success |-> TRUE,
                        tx_hash |-> tx_hash,
                        status |-> IF lookup.entry.ok THEN "confirmed" ELSE "failed",
                        block_number |-> lookup.entry.block,
                        confirmations |-> lookup.entry.block - current_block.value,
                        gas_used |-> lookup.entry.gas,
                        effective_gas_price |-> lookup.entry.price], {"rpc"})
         ELSE Out(Fail(Err("Transaction not found", <<>>)), {"rpc"})
    ELSE Out(UnsupportedChain(chain), {})

\* get_transaction_status counting the slot as confirmations
get_transaction_status_slots(tx_hash, chain, lookup, current_block) ==
    IF chain = solana
    THEN IF lookup.kind = "raise" THEN Out(Fail(StrE(lookup.msg)), {"rpc"})
         ELSE IF lookup.kind = "found"
         THEN Out([success |-> TRUE,
                   tx_hash |-> tx_hash,
                   status |-> IF lookup.entry.ok THEN "confirmed" ELSE "failed",
                   block_number |-> lookup.entry.block,
                   confirmations |-> lookup.entry.block,
                   fee |-> lookup.entry.gas], {"rpc"})
         ELSE Out(Fail(Err("Transaction not found", <<>>)), {"rpc"})
    ELSE IF chain \in web3_connections
    THEN IF lookup.kind = "raise" THEN Out(Fail(StrE(lookup.msg)), {"rpc"})
         ELSE IF lookup.kind = "found"
         THEN IF current_block.kind = "raise"
              THEN Out(Fail(StrE(current_block.msg)), {"rpc"})
              ELSE Out([success |-> TRUE,
                        tx_hash |-> tx_hash,
                        status |-> IF lookup.entry.ok THEN "confirmed" ELSE "failed",
                        block_number |-> lookup.entry.block,
                        confirmations |-> current_block.value - lookup.entry.block,
                        gas_used |-> lookup.entry.gas,
                        effective_gas_price |-> lookup.entry.price], {"rpc"})
         ELSE Out(Fail(Err("Transaction not found", <<>>)), {"rpc"})
    ELSE Out(UnsupportedChain(chain), {})

\* lookup: what the receipt / transaction query gave; current_block: what
\* the later eth.block_number gave (read on the EVM path with a receipt only)
get_transaction_status(tx_hash, chain, lookup, current_block) ==
    IF chain = solana
    THEN IF lookup.kind = "raise" THEN Out(Fail(StrE(lookup.msg)), {"rpc"})
         ELSE IF lookup.kind = "found"
         THEN Out([success |-> TRUE,
                   tx_hash |-> tx_hash,
                   status |-> IF lookup.entry.ok THEN "confirmed" ELSE "failed",
                   block_number |-> lookup.entry.block,
                   confirmations |-> 1,
                   fee |-> lookup.entry.gas], {"rpc"})
         ELSE Out(Fail(Err("Transaction not found", <<>>)), {"rpc"})
    ELSE IF chain \in web3_connections
    THEN IF lookup.kind = "raise" THEN Out(Fail(StrE(lookup.msg)), {"rpc"})
         ELSE IF lookup.kind = "found"
         THEN IF current_block.kind = "raise"
              THEN Out(Fail(StrE(current_block.msg)), {"rpc"})
              ELSE Out([success |-> TRUE,
                        tx_hash |-> tx_hash,
                        status |-> IF lookup.entry.ok THEN "confirmed" ELSE "failed",
                        block_number |-> lookup.entry.block,
                        confirmations |-> current_block.value - lookup.entry.block,
                        gas_used |-> lookup.entry.gas,
                        effective_gas_price |-> lookup.entry.price], {"rpc"})
         ELSE Out(Fail(Err("Transaction not found", <<>>)), {"rpc"})
    ELSE Out(UnsupportedChain(chain), {})

(***************************************************************************)
(* Calls.  One adapter call runs at a time; the caller takes the envelope  *)
(* (Return) before the next call starts.  The chains move on while no      *)
(* envelope is waiting to be taken.                                        *)
(***************************************************************************)
Idle == [op |-> "idle", pc |-> "idle"]

Finish(c, out) ==
    /\ call' = c
    /\ result' = out.ret
    /\ effects' = out.eff
    /\ UNCHANGED <<hostVars, chainVars, dbVars>>

Return ==
    /\ call.pc = "done"
    /\ call' = Idle
    /\ result' = NoResult
    /\ effects' = {}
    /\ UNCHANGED <<hostVars, chainVars, dbVars>>

GetDepositAddress ==
    /\ call.pc = "idle"
    /\ \E a \in AddrInputs, c \in ChainInputs :
        Finish([op |-> "get_deposit_address", pc |-> "done", address |-> a, chain |-> c],
               get_deposit_address(a, c))

GetEthBalance ==
    /\ call.pc = "idle"
    /\ \E a \in AddrInputs, c \in ChainInputs, up \in BOOLEAN :
        Finish([op |-> "get_eth_balance", pc |-> "done", address |-> a, chain |-> c,
                up |-> up],
               get_eth_balance(a, c, Net(up)))

GetSolBalance ==
    /\ call.pc = "idle"
    /\ \E a \in AddrInputs, r \in SolBalanceResponses :
        Finish([op |-> "get_sol_balance", pc |-> "done", address |-> a, chain |-> solana,
                response |-> r],
               get_sol_balance(a, r))

GetTokenBalance ==
    /\ call.pc = "idle"
    /\ \E a \in AddrInputs, t \in TokenInputs, c \in ChainInputs, up \in BOOLEAN,
          raw \in LamportValues :
        Finish([op |-> "get_token_balance", pc |-> "done", address |-> a,
                token_address |-> t, chain |-> c],
               get_token_balance(a, t, c, Net(up), raw))

GetAllBalances ==
    /\ call.pc = "idle"
    /\ \E a \in AddrInputs, c \in ChainInputs, up \in BOOLEAN, r \in SolBalanceResponses :
        Finish([op |-> "get_all_balances", pc |-> "done", address |-> a, chain |-> c],
               get_all_balances(a, c, Net(up), r))

EstimateGas ==
    /\ call.pc = "idle"
    /\ \E f \in AddrInputs, t \in AddrInputs, amt \in AmountInputs, c \in ChainInputs,
          tok \in TokenInputs \cup {""}, up \in BOOLEAN, p1 \in GasPrices, p2 \in GasPrices :
        Finish([op |-> "estimate_gas", pc |-> "done", address |-> f, to_address |-> t,
                amount |-> amt, chain |-> c, token_address |-> tok,
                price1 |-> p1, price2 |-> p2],
               estimate_gas(f, t, amt, c, tok, Net(up), p1, p2))

BalanceEstimateGas ==
    /\ call.pc = "idle"
    /\ \E f \in AddrInputs, t \in AddrInputs, amt \in AmountInputs, c \in ChainInputs,
          up \in BOOLEAN, p1 \in GasPrices, p2 \in GasPrices :
        Finish([op |-> "BalanceChecker.estimate_gas", pc |-> "done", address |-> f,
                to_address |-> t, amount |-> amt, chain |-> c,
                price1 |-> p1, price2 |-> p2],
               BalanceChecker_estimate_gas(f, t, to_wei(amt), c, Net(up), p1, p2))

\* get_transaction_status up to its first query.  Only the EVM path that
\* found a receipt goes on to read the chain head.
StatusLookup ==
    /\ call.pc = "idle"
    /\ \E tx \in TxInputs, c \in ChainInputs, up \in BOOLEAN, style \in LookupStyles :
        LET lookup == IF c \in SupportedChains THEN NodeLookup(Net(up), tx, c, style)
                      ELSE [kind |-> "unasked"]
            c0 == [op |-> "get_transaction_status", pc |-> "idle", tx_hash |-> tx,
                   chain |-> c, lookup |-> lookup]
        IN  IF c \in web3_connections /\ lookup.kind = "found"
            THEN /\ call' = [c0 EXCEPT !.pc = "receipt"]
                 /\ effects' = {"rpc"}
                 /\ UNCHANGED <<hostVars, result, chainVars, dbVars>>
            ELSE Finish([c0 EXCEPT !.pc = "done"],
                        get_transaction_status(tx, c, lookup, NodeBlockNumber(Net(up))))

StatusHead ==
    /\ call.pc = "receipt"
    /\ \E up \in BOOLEAN :
        Finish([call EXCEPT !.pc = "done"],
               get_transaction_status(call.tx_hash, call.chain, call.lookup,
                                      NodeBlockNumber(Net(up))))

(***************************************************************************)
(* Sends.  send_native_token and send_token run up to                      *)
(* eth.send_raw_transaction in one step and then wait for the receipt.     *)
(* Sends are called while fewer than MaxSends transactions have been       *)
(* submitted.                                                              *)
(***************************************************************************)
SendBudget == nonce + Cardinality(mempool) < MaxSends

Submit(c, s) ==
    IF s.sub = {}
    THEN Finish([c EXCEPT !.pc = "done"], Out(s.ret, s.eff))
    ELSE /\ \E tx \in s.sub :
              /\ call' = [c EXCEPT !.pc = "wait", !.tx_hash = tx]
              /\ mempool' = mempool \cup {[tx |-> tx, chain |-> c.chain]}
         /\ effects' = s.eff
         /\ UNCHANGED <<hostVars, result, head, ledger, balance, nonce, dbVars>>

SendNativeToken ==
    /\ call.pc = "idle"
    /\ SendBudget
    /\ \E k \in KeyInputs, t \in AddrInputs, amt \in AmountInputs, c \in ChainInputs,
          up \in BOOLEAN, p \in GasPrices :
        Submit([op |-> "send_native_token", pc |-> "idle", from_private_key |-> k,
                to_address |-> t, amount |-> amt, chain |-> c, token_address |-> "",
                up |-> up, tx_hash |-> ExtTx(0)],
               send_native_token(k, t, amt, c, Net(up), p))

SendToken ==
    /\ call.pc = "idle"
    /\ SendBudget
    /\ \E k \in KeyInputs, t \in AddrInputs, tok \in TokenInputs, amt \in AmountInputs,
          c \in ChainInputs, up \in BOOLEAN, p \in GasPrices :
        Submit([op |-> "send_token", pc |-> "idle", from_private_key |-> k,
                to_address |-> t, amount |-> amt, chain |-> c, token_address |-> tok,
                up |-> up, tx_hash |-> ExtTx(0)],
               send_token(k, t, tok, amt, c, Net(up), p))

SendSol ==
    /\ call.pc = "idle"
    /\ SendBudget
    /\ \E k \in KeyInputs, t \in AddrInputs, amt \in AmountInputs, r \in SolSendResponses :
        Finish([op |-> "send_sol", pc |-> "done", from_private_key |-> k,
                to_address |-> t, amount |-> amt, chain |-> solana],
               send_sol(k, t, amt, r))

Receipt(c) == CHOOSE r \in ledger : r.tx = c.tx_hash /\ r.chain = c.chain

HasReceipt(c) == \E r \in ledger : r.tx = c.tx_hash /\ r.chain = c.chain

\* web3.eth.wait_for_transaction_receipt returns the receipt
WaitReceipt ==
    /\ call.pc = "wait"
    /\ HasReceipt(call)
    /\ Finish([call EXCEPT !.pc = "done"],
              Out(IF call.op = "send_token" THEN send_token_receipt(call, Receipt(call))
                  ELSE send_native_token_receipt(call, Receipt(call)),
                  effects))

\* a wait for the receipt with no timeout: it polls on
WaitRaises_unbounded ==
    /\ call.pc = "wait"
    /\ ~HasReceipt(call)
    /\ UNCHANGED vars

\* web3.eth.wait_for_transaction_receipt raises: its timeout (the library's
\* default of 120 seconds) ran out, or a poll for the receipt failed
WaitRaises ==
    /\ call.pc = "wait"
    /\ ~HasReceipt(call)
    /\ \E e \in {StrE("Transaction is not in the chain after 120 seconds"), ConnectionError} :
        Finish([call EXCEPT !.pc = "done"], Out(Fail(e), effects))

(***************************************************************************)
(* The chains                                                              *)
(***************************************************************************)
\* a chain appends an empty block
Mine ==
    /\ call.pc # "done"
    /\ head < MaxHead
    /\ head' = head + 1
    /\ UNCHANGED <<hostVars, ledger, mempool, balance, nonce, call, result, effects, dbVars>>

\* a chain includes a transaction of another party in a new block
IncludeExternal ==
    /\ call.pc # "done"
    /\ head < MaxHead
    /\ ~\E r \in ledger : r.tx = ExtTx(1)
    /\ \E c \in SupportedChains, ok \in BOOLEAN :
        ledger' = ledger \cup {[tx |-> ExtTx(1), chain |-> c, block |-> head + 1,
                                ok |-> ok, gas |-> IntrinsicGas, price |-> 1]}
    /\ head' = head + 1
    /\ UNCHANGED <<hostVars, mempool, balance, nonce, call, result, effects, dbVars>>

\* a chain includes a submitted transaction in a new block: it executes
\* (ok) or reverts, and the sender pays value and fee, or the fee alone
IncludePending ==
    /\ call.pc # "done"
    /\ head < MaxHead
    /\ \E p \in mempool, ok \in BOOLEAN :
        LET used == IF p.tx.data = NoData THEN NodeGas(p.tx.to) ELSE p.tx.gas \div 2
        IN  /\ ledger' = ledger \cup {[tx |-> p.tx, chain |-> p.chain, block |-> head + 1,
                                       ok |-> ok, gas |-> used, price |-> p.tx.gasPrice]}
            /\ mempool' = mempool \ {p}
            /\ balance' = WSubSmall(IF ok THEN WSub(balance, p.tx.value) ELSE balance,
                                    used * p.tx.gasPrice)
    /\ head' = head + 1
    /\ nonce' = nonce + 1
    /\ UNCHANGED <<hostVars, call, result, effects, dbVars>>

\* the account 0xA1 is funded to one ether, or emptied
Fund ==
    /\ call.pc # "done"
    /\ \E b \in BalanceValues \ {balance} : balance' = b
    /\ UNCHANGED <<hostVars, head, ledger, mempool, nonce, call, result, effects, dbVars>>

Init ==
    /\ head = 0
    /\ ledger = {}
    /\ mempool = {}
    /\ balance = WZero
    /\ nonce = 0
    /\ call = Idle
    /\ result = NoResult
    /\ effects = {}
    /\ users = {}
    /\ wallets = {}
    /\ encryption_key = 0
    /\ sqlite_wallets = <<>>
    /\ transactions = {}
    /\ sends = [s \in Senders |-> NoSend]
    /\ application = "None"
    /\ webhook = Booting

Next ==
    \/ GetDepositAddress
    \/ GetEthBalance
    \/ GetSolBalance
    \/ GetTokenBalance
    \/ GetAllBalances
    \/ EstimateGas
    \/ BalanceEstimateGas
    \/ StatusLookup
    \/ StatusHead
    \/ Return
    \/ Mine
    \/ IncludeExternal
    \/ Fund

Spec == Init /\ [][Next]_vars

\* The sends, on the same chains
NextSend ==
    \/ SendNativeToken
    \/ SendToken
    \/ SendSol
    \/ WaitReceipt
    \/ WaitRaises
    \/ Return
    \/ Mine
    \/ IncludePending
    \/ Fund

SpecSend == Init /\ [][NextSend]_vars

\* The EVM sends with the thread of the call running: a wait that can
\* return the receipt or raise does so.
NextSendLive ==
    \/ SendNativeToken
    \/ SendToken
    \/ WaitReceipt
    \/ WaitRaises
    \/ Return
    \/ IncludePending
    \/ Fund

SpecSendLive ==
    Init /\ [][NextSendLive]_vars /\ WF_vars(WaitReceipt) /\ WF_vars(WaitRaises)

(***************************************************************************)
(* The wallet store and key vault (SupabaseManager), WalletManager's       *)
(* listing, and the /send, /gas and /balance command handlers.             *)
(***************************************************************************)
MaxWallets == 1
MaxRestarts == 1

UserInputs == {"u1", "u2"}
NameInputs == {"main"}
CommandChains == {ethereum, solana, Upper(ethereum), dogecoin}
AmountTexts == {"0.5", "2", "abc"}

\* what an update handler leaves behind: a message sent with
\* update.message.reply_text, or an exception that left the handler
Reply(text, detail) == [reply |-> text, detail |-> detail]

Raised(exc) == [raised |-> exc]

\* Fernet: a token is bound to the key that made it
encrypt_private_key(private_key) == [key |-> encryption_key, pt |-> private_key]

\* a string that is no token of any key
Garbage == [key |-> 0 - 1, pt |-> ""]

\* cryptography.fernet.InvalidToken carries no message
InvalidToken == StrE("")

decrypt_private_key(encrypted_key) ==
    IF encrypted_key.key = encryption_key
    THEN [kind |-> "value", value |-> encrypted_key.pt]
    ELSE [kind |-> "raise", err |-> InvalidToken]

get_user(telegram_id, db_up) ==
    IF ~db_up THEN Fail(ConnectionError)
    ELSE IF telegram_id \in users THEN [success |-> TRUE, user |-> telegram_id]
    ELSE Fail(Err("User not found", <<>>))

\* the result and the rows of the table after the call
add_wallet(telegram_id, name, private_key, chain, db_up) ==
    LET user_result == get_user(telegram_id, db_up)
        wallet_data == [id |-> Cardinality(wallets) + 1,
                        user_id |-> telegram_id,
                        name |-> name,
                        address |-> "",
                        encrypted_private_key |-> encrypt_private_key(private_key),
                        chain |-> Lower(chain)]
    IN  IF ~user_result.success THEN [ret |-> user_result, rows |-> wallets]
        ELSE [ret |-> [success |-> TRUE, wallet |-> wallet_data],
              rows |-> wallets \cup {wallet_data}]

\* a select by name and chain alone, whoever owns the row
Matching_any_owner(telegram_id, wallet_name, chain) ==
    {w \in wallets : w.name = wallet_name /\ w.chain = Lower(chain)}

\* the rows the select of get_wallet matches
Matching(telegram_id, wallet_name, chain) ==
    {w \in wallets : w.user_id = telegram_id /\ w.name = wallet_name
                     /\ w.chain = Lower(chain)}

NoRow == [id |-> 0]

\* first: the row the select returned first
get_wallet(telegram_id, wallet_name, chain, db_up, first) ==
    LET user_result == get_user(telegram_id, db_up)
    IN  IF ~user_result.success THEN user_result
        ELSE IF Matching(telegram_id, wallet_name, chain) # {}
        THEN [success |-> TRUE, wallet |-> first]
        ELSE Fail(Err("Wallet not found", <<>>))

\* WalletManager.get_user_wallets: the sqlite calls are made outside any try
Reverse(seq) == [i \in 1..Len(seq) |-> seq[Len(seq) + 1 - i]]

OwnedBy(user_id) == LET Owned(w) == w.user_id = user_id IN SelectSeq(sqlite_wallets, Owned)

WalletManager_get_user_wallets(user_id, db_up) ==
    IF db_up
    THEN [rows |-> [i \in 1..Len(OwnedBy(user_id)) |->
                    [name |-> Reverse(OwnedBy(user_id))[i].wallet_name,
                     address |-> Reverse(OwnedBy(user_id))[i].wallet_address,
                     chain |-> Reverse(OwnedBy(user_id))[i].chain]]]
    ELSE Raised("OperationalError")

\* float(context.args[3])
IsFloat(text) == text \in {"0.5", "2"}

float(text) == IF text = "0.5" THEN Amt(5, 1) ELSE Amt(2, 0)

\* /send up to the adapter call: a reply, an exception, or the key to send with
send_transaction_begin(amount_text, wallet_result) ==
    IF ~IsFloat(amount_text) THEN Raised("ValueError")
    ELSE IF ~wallet_result.success THEN Reply("Error", wallet_result.error)
    ELSE LET private_key ==
                 decrypt_private_key(wallet_result.wallet.encrypted_private_key)
         IN  IF private_key.kind = "raise"
             THEN Reply("Unable to send transaction", private_key.err)
             ELSE [go |-> private_key.value]

\* /send from the adapter's result on
send_transaction_end(r) ==
    IF r.success THEN Reply("Transaction Sent Successfully", r)
    ELSE Reply("Transaction Failed", r.error)

\* /gas; estimate: transaction_manager.estimate_gas for the stored address
estimate_gas_command(amount_text, wallet_result, estimate) ==
    IF ~IsFloat(amount_text) THEN Raised("ValueError")
    ELSE IF ~wallet_result.success THEN Reply("Error", wallet_result.error)
    ELSE IF estimate.success THEN Reply("Gas Estimation", estimate)
    ELSE Reply("Failed to estimate gas", estimate.error)

\* /balance; balance_result: get_sol_balance or get_eth_balance for the
\* stored address
check_balance(wallet_result, balance_result) ==
    IF ~wallet_result.success THEN Reply("Error", wallet_result.error)
    ELSE IF balance_result.success THEN Reply("Balance for", balance_result)
    ELSE Reply("Failed to get balance", balance_result.error)

\* /start registers the user
CreateUser ==
    /\ call.pc = "idle"
    /\ \E u \in UserInputs \ users : users' = users \cup {u}
    /\ UNCHANGED <<hostVars, chainVars, call, result, effects, wallets, encryption_key, sqlite_wallets>>

AddWallet ==
    /\ call.pc = "idle"
    /\ Cardinality(wallets) < MaxWallets
    /\ \E u \in UserInputs, n \in NameInputs, k \in KeyInputs, c \in {ethereum, solana},
          db_up \in BOOLEAN :
        LET added == add_wallet(u, n, k, c, db_up)
        IN  /\ wallets' = added.rows
            /\ call' = [op |-> "add_wallet", pc |-> "done", user |-> u, chain |-> c]
            /\ result' = added.ret
    /\ effects' = {}
    /\ UNCHANGED <<hostVars, chainVars, users, encryption_key, sqlite_wallets>>

\* the process starts again with no ENCRYPTION_KEY in its environment
Restart ==
    /\ call.pc = "idle"
    /\ encryption_key < MaxRestarts
    /\ encryption_key' = encryption_key + 1
    /\ UNCHANGED <<hostVars, chainVars, call, result, effects, users, wallets, sqlite_wallets>>

DecryptPrivateKey ==
    /\ call.pc = "idle"
    /\ \E encrypted_key \in {w.encrypted_private_key : w \in wallets} \cup {Garbage} :
        LET private_key == decrypt_private_key(encrypted_key)
        IN  Finish([op |-> "decrypt_private_key", pc |-> "done",
                    encrypted_key |-> encrypted_key],
                   Out(IF private_key.kind = "raise" THEN Raised("InvalidToken")
                       ELSE [value |-> private_key.value], {}))

GetUserWallets ==
    /\ call.pc = "idle"
    /\ \E u \in UserInputs, db_up \in BOOLEAN :
        Finish([op |-> "WalletManager.get_user_wallets", pc |-> "done", user |-> u,
                db_up |-> db_up],
               Out(WalletManager_get_user_wallets(u, db_up), {}))

Firsts(u, n, c) == IF Matching(u, n, c) = {} THEN {NoRow} ELSE Matching(u, n, c)

SendCommand ==
    /\ call.pc = "idle"
    /\ SendBudget
    /\ \E u \in UserInputs, n \in NameInputs, ct \in CommandChains, t \in AddrInputs,
          a \in AmountTexts, tok \in {"", "0xT1"}, db_up \in BOOLEAN :
        \E first \in Firsts(u, n, Lower(ct)) :
            LET chain == Lower(ct)
                begin == send_transaction_begin(a, get_wallet(u, n, chain, db_up, first))
                c0 == [op |-> "/send", pc |-> "idle", user |-> u, chain |-> chain,
                       to_address |-> t, amount_text |-> a, amount |-> float(a),
                       token_address |-> tok, db_up |-> db_up, up |-> TRUE,
                       tx_hash |-> ExtTx(0)]
            IN  IF "go" \notin DOMAIN begin
                THEN Finish([c0 EXCEPT !.pc = "done"], Out(begin, {}))
                ELSE \E up \in BOOLEAN, p \in GasPrices, r \in SolSendResponses :
                        LET sol == send_sol(begin.go, t, float(a), r)
                            s == IF tok # ""
                                 THEN send_token(begin.go, t, tok, float(a), chain, Net(up), p)
                                 ELSE IF chain = solana THEN Sent(sol.ret, sol.eff, {})
                                 ELSE send_native_token(begin.go, t, float(a), chain,
                                                        Net(up), p)
                        IN  IF s.sub = {}
                            THEN Finish([c0 EXCEPT !.pc = "done", !.up = up],
                                        Out(send_transaction_end(s.ret), s.eff))
                            ELSE Submit([c0 EXCEPT !.up = up], s)

SendCommandEnvelope ==
    IF call.token_address # "" THEN send_token_receipt(call, Receipt(call))
    ELSE send_native_token_receipt(call, Receipt(call))

\* the receipt arrives while /send waits for it
SendCommandReceipt ==
    /\ call.pc = "wait" /\ call.op = "/send"
    /\ HasReceipt(call)
    /\ Finish([call EXCEPT !.pc = "done"],
              Out(send_transaction_end(SendCommandEnvelope), effects))

\* the wait for the receipt raises inside the adapter
SendCommandTimeout ==
    /\ call.pc = "wait" /\ call.op = "/send"
    /\ ~HasReceipt(call)
    /\ \E e \in {StrE("Transaction is not in the chain after 120 seconds"), ConnectionError} :
        Finish([call EXCEPT !.pc = "done"], Out(send_transaction_end(Fail(e)), effects))

GasCommand ==
    /\ call.pc = "idle"
    /\ \E u \in UserInputs, n \in NameInputs, ct \in CommandChains, a \in AmountTexts,
          db_up \in BOOLEAN :
        \E first \in Firsts(u, n, Lower(ct)) :
            LET chain == Lower(ct)
                wallet_result == get_wallet(u, n, chain, db_up, first)
                c0 == [op |-> "/gas", pc |-> "done", user |-> u, chain |-> chain,
                       amount_text |-> a, db_up |-> db_up, up |-> TRUE]
            IN  IF ~(IsFloat(a) /\ wallet_result.success)
                THEN Finish(c0, Out(estimate_gas_command(a, wallet_result, NoResult), {}))
                ELSE \E t \in AddrInputs, tok \in {"", "0xT1"}, up \in BOOLEAN,
                        p1 \in GasPrices, p2 \in GasPrices :
                        LET estimate == estimate_gas(wallet_result.wallet.address, t, float(a),
                                                     chain, tok, Net(up), p1, p2)
                        IN  Finish([c0 EXCEPT !.up = up],
                                   Out(estimate_gas_command(a, wallet_result, estimate.ret),
                                       estimate.eff))

BalanceCommand ==
    /\ call.pc = "idle"
    /\ \E u \in UserInputs, n \in NameInputs, ct \in CommandChains, db_up \in BOOLEAN :
        \E first \in Firsts(u, n, Lower(ct)) :
            LET chain == Lower(ct)
                wallet_result == get_wallet(u, n, chain, db_up, first)
                c0 == [op |-> "/balance", pc |-> "done", user |-> u, chain |-> chain,
                       db_up |-> db_up, up |-> TRUE]
            IN  IF ~wallet_result.success
                THEN Finish(c0, Out(check_balance(wallet_result, NoResult), {}))
                ELSE \E up \in BOOLEAN, r \in SolBalanceResponses :
                        LET balance_result ==
                                IF chain = solana
                                THEN get_sol_balance(wallet_result.wallet.address, r)
                                ELSE get_eth_balance(wallet_result.wallet.address, chain,
                                                     Net(up))
                        IN  Finish([c0 EXCEPT !.up = up],
                                   Out(check_balance(wallet_result, balance_result.ret),
                                       balance_result.eff))

NextEngine ==
    \/ CreateUser
    \/ AddWallet
    \/ Restart
    \/ DecryptPrivateKey
    \/ GetUserWallets
    \/ SendCommand
    \/ SendCommandReceipt
    \/ SendCommandTimeout
    \/ GasCommand
    \/ BalanceCommand
    \/ Return
    \/ IncludePending
    \/ Fund

SpecEngine == Init /\ [][NextEngine]_vars

(***************************************************************************)
(* WalletManager: the sqlite wallet directory                              *)
(***************************************************************************)
MaxRows == 2

\* k0: 64 hex digits that are no key of the curve (all zero)
WalletKeyInputs == KeyInputs \cup {"k0"}

WalletChainInputs == {ethereum, base, solana, Upper(ethereum)}

_validate_private_key(private_key, chain) ==
    chain \in {ethereum, base, bsc, polygon} /\ private_key \in {"k1", "k0"}

\* "" is Python's None
_get_wallet_address(private_key, chain) ==
    IF chain \in {ethereum, base, bsc, polygon} /\ chain \in web3_connections
    THEN KeyAddress(private_key)
    ELSE ""

\* the key read from the file encryption.key, written once
WalletManager_encrypt_private_key(private_key) ==
    [key_file |-> "encryption.key", pt |-> private_key]

\* the result and the rows of the table after the call
WalletManager_add_wallet(user_id, wallet_name, private_key, chain, db_up) ==
    LET wallet_address == _get_wallet_address(private_key, chain)
        row == [user_id |-> user_id,
                wallet_name |-> wallet_name,
                encrypted_private_key |-> WalletManager_encrypt_private_key(private_key),
                wallet_address |-> wallet_address,
                chain |-> chain]
    IN  IF ~_validate_private_key(private_key, chain)
        THEN [ret |-> Fail(Err("Invalid private key", <<>>)), rows |-> sqlite_wallets]
        ELSE IF wallet_address = ""
        THEN [ret |-> Fail(Err("Could not derive wallet address", <<>>)),
              rows |-> sqlite_wallets]
        ELSE IF ~db_up
        THEN [ret |-> Fail(Err("Failed to add wallet: unable to open database file", <<>>)),
              rows |-> sqlite_wallets]
        ELSE [ret |-> [success |-> TRUE, wallet_address |-> wallet_address, chain |-> chain],
              rows |-> Append(sqlite_wallets, row)]

\* the rows a statement of WalletManager matches by (user_id, wallet_name, chain)
WalletManager_matching(user_id, wallet_name, chain) ==
    {i \in 1..Len(sqlite_wallets) :
        /\ sqlite_wallets[i].user_id = user_id
        /\ sqlite_wallets[i].wallet_name = wallet_name
        /\ sqlite_wallets[i].chain = chain}

WalletManager_remove_wallet(user_id, wallet_name, chain, db_up) ==
    LET Kept(w) == ~(w.user_id = user_id /\ w.wallet_name = wallet_name /\ w.chain = chain)
        kept == SelectSeq(sqlite_wallets, Kept)
    IN  IF ~db_up
        THEN [ret |-> Fail(Err("Failed to remove wallet: unable to open database file", <<>>)),
              rows |-> sqlite_wallets]
        ELSE IF Len(kept) = Len(sqlite_wallets)
        THEN [ret |-> Fail(Err("Wallet not found", <<>>)), rows |-> sqlite_wallets]
        ELSE [ret |-> [success |-> TRUE, removed |-> wallet_name], rows |-> kept]

WalletManagerAddWallet ==
    /\ call.pc = "idle"
    /\ Len(sqlite_wallets) < MaxRows
    /\ \E u \in UserInputs, n \in NameInputs, k \in WalletKeyInputs, c \in WalletChainInputs,
          db_up \in BOOLEAN :
        LET added == WalletManager_add_wallet(u, n, k, c, db_up)
        IN  /\ sqlite_wallets' = added.rows
            /\ call' = [op |-> "WalletManager.add_wallet", pc |-> "done", user |-> u,
                        name |-> n, chain |-> c, private_key |-> k]
            /\ result' = added.ret
    /\ effects' = {}
    /\ UNCHANGED <<hostVars, chainVars, users, wallets, encryption_key>>

WalletManagerRemoveWallet ==
    /\ call.pc = "idle"
    /\ \E u \in UserInputs, n \in NameInputs, c \in WalletChainInputs, db_up \in BOOLEAN :
        LET removed == WalletManager_remove_wallet(u, n, c, db_up)
        IN  /\ sqlite_wallets' = removed.rows
            /\ call' = [op |-> "WalletManager.remove_wallet", pc |-> "done", user |-> u,
                        name |-> n, chain |-> c, db_up |-> db_up,
                        found |-> WalletManager_matching(u, n, c) # {}]
            /\ result' = removed.ret
    /\ effects' = {}
    /\ UNCHANGED <<hostVars, chainVars, users, wallets, encryption_key>>

NextWallets ==
    \/ WalletManagerAddWallet
    \/ WalletManagerRemoveWallet
    \/ GetUserWallets
    \/ Return

SpecWallets == Init /\ [][NextWallets]_vars

(***************************************************************************)
(* The wallet directories side by side: SupabaseManager and                *)
(* SyncDatabaseManager on the hosted tables, WalletManager on its sqlite   *)
(* file.  A deployment runs on one of the two stores.                      *)
(***************************************************************************)
MaxTransactions == 1

\* SupabaseManager.remove_wallet: the result and the rows after the call
remove_wallet(telegram_id, wallet_name, chain, db_up) ==
    LET user_result == get_user(telegram_id, db_up)
        deleted == Matching(telegram_id, wallet_name, chain)
    IN  IF ~user_result.success THEN [ret |-> user_result, rows |-> wallets]
        ELSE IF deleted # {}
        THEN [ret |-> [success |-> TRUE, message |-> "Wallet removed successfully"],
              rows |-> wallets \ deleted]
        ELSE [ret |-> Fail(Err("Wallet not found", <<>>)), rows |-> wallets]

\* SupabaseManager.add_transaction: the result and the rows after the call
add_transaction(telegram_id, wallet_id, tx_data, db_up) ==
    LET user_result == get_user(telegram_id, db_up)
        transaction_data == [user_id |-> telegram_id, wallet_id |-> wallet_id,
                             tx_hash |-> tx_data.tx_hash, status |-> tx_data.status]
    IN  IF ~user_result.success THEN [ret |-> user_result, rows |-> transactions]
        ELSE [ret |-> [success |-> TRUE, transaction |-> transaction_data],
              rows |-> transactions \cup {transaction_data}]

\* SyncDatabaseManager talks to the same tables over REST, with
\* "Prefer: return=minimal"; user_id is the owner column of a row
SyncDatabaseManager_add_wallet(telegram_id, name, address, private_key, chain, db_up) ==
    LET wallet_data == [id |-> Cardinality(wallets) + 1,
                        user_id |-> telegram_id,
                        name |-> name,
                        address |-> address,
                        encrypted_private_key |-> encrypt_private_key(private_key),
                        chain |-> Lower(chain)]
    IN  IF ~db_up
        THEN [ret |-> Fail(StrE("Connection error - database may be unavailable")),
              rows |-> wallets]
        ELSE [ret |-> [success |-> TRUE, wallet |-> wallet_data, wallet_address |-> address],
              rows |-> wallets \cup {wallet_data}]

SyncDatabaseManager_get_wallet(telegram_id, name, chain, db_up, first) ==
    IF ~db_up THEN Fail(StrE("Connection error - database may be unavailable"))
    ELSE IF Matching(telegram_id, name, chain) # {}
    THEN [success |-> TRUE, wallet |-> first]
    ELSE Fail(Err("Wallet not found", <<>>))

\* the DELETE answers 204 whatever it matched
SyncDatabaseManager_remove_wallet(telegram_id, name, chain, db_up) ==
    IF ~db_up
    THEN [ret |-> Fail(StrE("Connection error - database may be unavailable")),
          rows |-> wallets]
    ELSE [ret |-> [success |-> TRUE], rows |-> wallets \ Matching(telegram_id, name, chain)]

\* row: the row cursor.fetchone() returned
WalletManager_get_wallet_balance(user_id, wallet_name, chain, db_up, row, net) ==
    IF ~db_up THEN Fail(Err("Failed to get balance: unable to open database file", <<>>))
    ELSE IF WalletManager_matching(user_id, wallet_name, chain) = {}
    THEN Fail(Err("Wallet not found", <<>>))
    ELSE IF chain \notin web3_connections THEN Fail(Err("Chain {} not supported", chain))
    ELSE IF ~net.up THEN Fail(Err("Failed to get balance: ", ConnectionError.msg))
    ELSE [success |-> TRUE,
          wallet_address |-> row.wallet_address,
          chain |-> chain,
          balance_wei |-> NodeBalance(net, row.wallet_address),
          symbol |-> IF chain = ethereum THEN "ETH"
                     ELSE IF chain = bsc THEN "BNB" ELSE "MATIC"]

\* a call of a store operation as the properties see it; found: the
\* directory held a record of (owner, name, chain) when the call was made
StoreCall(op, u, n, c, db_up, found) ==
    [op |-> op, pc |-> "done", user |-> u, name |-> n, chain |-> c, db_up |-> db_up,
     found |-> found]

RemoveWallet ==
    /\ call.pc = "idle"
    /\ \E u \in UserInputs, n \in NameInputs, c \in {ethereum, solana, Upper(ethereum)},
          db_up \in BOOLEAN :
        LET removed == remove_wallet(u, n, c, db_up)
        IN  /\ wallets' = removed.rows
            /\ call' = StoreCall("remove_wallet", u, n, c, db_up, Matching(u, n, c) # {})
            /\ result' = removed.ret
    /\ effects' = {}
    /\ UNCHANGED <<chainVars, users, encryption_key, sqlite_wallets, hostVars>>

GetWallet ==
    /\ call.pc = "idle"
    /\ \E u \in UserInputs, n \in NameInputs, c \in {ethereum, solana, Upper(ethereum)},
          db_up \in BOOLEAN :
        \E first \in Firsts(u, n, c) :
            Finish(StoreCall("get_wallet", u, n, c, db_up, Matching(u, n, c) # {}),
                   Out(get_wallet(u, n, c, db_up, first), {}))

SyncAddWallet ==
    /\ call.pc = "idle"
    /\ Cardinality(wallets) < MaxRows
    /\ \E u \in UserInputs, n \in NameInputs, c \in {ethereum, Upper(ethereum)},
          db_up \in BOOLEAN :
        LET added == SyncDatabaseManager_add_wallet(u, n, KeyAddress("k1"), "k1", c, db_up)
        IN  /\ wallets' = added.rows
            /\ call' = StoreCall("SyncDatabaseManager.add_wallet", u, n, c, db_up,
                                 Matching(u, n, c) # {})
            /\ result' = added.ret
    /\ effects' = {}
    /\ UNCHANGED <<chainVars, users, encryption_key, sqlite_wallets, hostVars>>

SyncGetWallet ==
    /\ call.pc = "idle"
    /\ \E u \in UserInputs, n \in NameInputs, c \in {ethereum, solana, Upper(ethereum)},
          db_up \in BOOLEAN :
        \E first \in Firsts(u, n, c) :
            Finish(StoreCall("SyncDatabaseManager.get_wallet", u, n, c, db_up,
                             Matching(u, n, c) # {}),
                   Out(SyncDatabaseManager_get_wallet(u, n, c, db_up, first), {}))

SyncRemoveWallet ==
    /\ call.pc = "idle"
    /\ \E u \in UserInputs, n \in NameInputs, c \in {ethereum, solana, Upper(ethereum)},
          db_up \in BOOLEAN :
        LET removed == SyncDatabaseManager_remove_wallet(u, n, c, db_up)
        IN  /\ wallets' = removed.rows
            /\ call' = StoreCall("SyncDatabaseManager.remove_wallet", u, n, c, db_up,
                                 Matching(u, n, c) # {})
            /\ result' = removed.ret
    /\ effects' = {}
    /\ UNCHANGED <<chainVars, users, encryption_key, sqlite_wallets, hostVars>>

WalletManagerGetWalletBalance ==
    /\ call.pc = "idle"
    /\ \E u \in UserInputs, n \in NameInputs, c \in WalletChainInputs, db_up \in BOOLEAN,
          up \in BOOLEAN :
        \E i \in IF WalletManager_matching(u, n, c) = {} THEN {0}
                 ELSE WalletManager_matching(u, n, c) :
            Finish(StoreCall("WalletManager.get_wallet_balance", u, n, c, db_up, i # 0),
                   Out(WalletManager_get_wallet_balance(
                           u, n, c, db_up,
                           IF i = 0 THEN NoRow ELSE sqlite_wallets[i], Net(up)), {}))

AddTransaction ==
    /\ call.pc = "idle"
    /\ Cardinality(transactions) < MaxTransactions
    /\ \E u \in UserInputs, w \in 1..MaxWallets, tx \in TxInputs,
          db_up \in BOOLEAN :
        LET added == add_transaction(u, w, [tx_hash |-> tx, status |-> "pending"], db_up)
        IN  /\ transactions' = added.rows
            /\ call' = [op |-> "add_transaction", pc |-> "done", user |-> u,
                        db_up |-> db_up]
            /\ result' = added.ret
    /\ effects' = {}
    /\ UNCHANGED <<chainVars, dbVars, sends, application, webhook>>

(***************************************************************************)
(* The /connect and /generate command handlers, on SupabaseManager         *)
(***************************************************************************)
\* the chains /connect accepts and /generate loops over
supported_chains == {ethereum, base, bsc, polygon}

\* f"auto_{chain}"
AutoName(chain) ==
    CASE chain = ethereum -> "auto_ethereum"
      [] chain = base -> "auto_base"
      [] chain = bsc -> "auto_bsc"
      [] chain = polygon -> "auto_polygon"
      [] OTHER -> "auto_"

\* private_key: what secrets.token_hex(32) drew
generate_wallet_for_chain(chain, private_key) ==
    IF Lower(chain) \in supported_chains
    THEN [success |-> TRUE, private_key |-> private_key,
          address |-> KeyAddress(private_key), chain |-> Lower(chain)]
    ELSE IF Lower(chain) = solana
    THEN Fail(Err("Solana wallet generation not yet implemented", <<>>))
    ELSE UnsupportedChain(chain)

\* the parameters of SupabaseManager.add_wallet, and the keywords
\* auto_generate_wallets calls db_manager.add_wallet with
add_wallet_parameters == {"telegram_id", "name", "private_key", "chain"}

add_wallet_keywords == {"telegram_id", "name", "address", "private_key", "chain"}

\* the loop over the chains: the exception that leaves it, or the entries of
\* its report and the rows of the table after it
auto_generate_wallets(user_id, private_key, db_up) ==
    LET added(chain) == add_wallet(user_id, AutoName(chain),
                                   generate_wallet_for_chain(chain, private_key).private_key,
                                   chain, db_up)
    IN  IF ~(add_wallet_keywords \subseteq add_wallet_parameters)
        THEN [raised |-> StrE("add_wallet() got an unexpected keyword argument 'address'"),
              rows |-> wallets]
        ELSE [success |-> TRUE,
              wallets |-> {[chain |-> chain,
                            status |-> IF added(chain).ret.success THEN "created"
                                       ELSE "failed"] : chain \in supported_chains},
              rows |-> UNION {added(chain).rows : chain \in supported_chains}]

\* /generate from auto_generate_wallets on
generate_wallets_command(generated) ==
    IF "raised" \in DOMAIN generated
    THEN Reply("Unable to generate wallets", generated.raised)
    ELSE Reply("Wallets Generated Successfully", generated.wallets)

\* /connect <wallet_name> <private_key> <chain>: the reply and the rows of
\* the table after it
connect_wallet(user_id, wallet_name, private_key, chain_arg, db_up) ==
    LET chain == Lower(chain_arg)
        added == add_wallet(user_id, wallet_name, private_key, chain, db_up)
    IN  IF chain \notin supported_chains
        THEN [ret |-> Reply("Unsupported chain:", chain), rows |-> wallets]
        ELSE IF ~added.ret.success
        THEN [ret |-> Reply("Failed to connect wallet", added.ret.error),
              rows |-> added.rows]
        ELSE IF "wallet_address" \notin DOMAIN added.ret
        THEN [ret |-> Reply("Database Error: Unable to connect wallet at this time.",
                            StrE("'wallet_address'")),
              rows |-> added.rows]
        ELSE [ret |-> Reply("Wallet Connected Successfully", added.ret.wallet_address),
              rows |-> added.rows]

ConnectCommand ==
    /\ call.pc = "idle"
    /\ Cardinality(wallets) < MaxWallets
    /\ \E u \in UserInputs, n \in NameInputs, k \in KeyInputs,
          c \in SupportedChains \cup {Upper(ethereum)}, db_up \in BOOLEAN :
        LET connected == connect_wallet(u, n, k, c, db_up)
        IN  /\ wallets' = connected.rows
            /\ call' = [op |-> "/connect", pc |-> "done", user |-> u, name |-> n,
                        chain |-> Lower(c), db_up |-> db_up,
                        stored |-> connected.rows # wallets]
            /\ result' = connected.ret
    /\ effects' = {}
    /\ UNCHANGED <<chainVars, users, encryption_key, sqlite_wallets, hostVars>>

\* /generate up to its first reply: the user is looked up, and registered
\* if there is no such user
GenerateCommandBegin ==
    /\ call.pc = "idle"
    /\ \E u \in UserInputs, db_up \in BOOLEAN :
        IF ~db_up
        THEN Finish([op |-> "/generate", pc |-> "done", user |-> u, db_up |-> db_up],
                    Out(Reply("Error creating user account", ConnectionError), {}))
        ELSE /\ users' = users \cup {u}
             /\ call' = [op |-> "/generate", pc |-> "generating", user |-> u,
                         db_up |-> db_up]
             /\ effects' = {}
             /\ UNCHANGED <<chainVars, result, wallets, encryption_key, sqlite_wallets,
                            hostVars>>

\* /generate from auto_generate_wallets on; the database may have gone
GenerateCommandEnd ==
    /\ call.pc = "generating"
    /\ \E k \in {"k1"}, db_up \in BOOLEAN :
        LET generated == auto_generate_wallets(call.user, k, db_up)
        IN  /\ wallets' = generated.rows
            /\ call' = [call EXCEPT !.pc = "done", !.db_up = db_up]
            /\ result' = generate_wallets_command(generated)
    /\ effects' = {}
    /\ UNCHANGED <<chainVars, users, encryption_key, sqlite_wallets, hostVars>>

\* Each table is explored by itself: an operation reads the users and its own
\* table only.
NextStore ==
    \/ /\ sqlite_wallets = <<>> /\ transactions = {}
       /\ \/ CreateUser
          \/ ConnectCommand
          \/ GenerateCommandBegin
          \/ GenerateCommandEnd
          \/ GetWallet
          \/ RemoveWallet
          \/ SyncAddWallet
          \/ SyncGetWallet
          \/ SyncRemoveWallet
    \/ /\ sqlite_wallets = <<>> /\ wallets = {}
       /\ AddTransaction
    \/ /\ users = {} /\ wallets = {}
       /\ \/ WalletManagerAddWallet
          \/ WalletManagerRemoveWallet
          \/ WalletManagerGetWalletBalance
          \/ GetUserWallets
    \/ Return

SpecStore == Init /\ [][NextStore]_vars

(***************************************************************************)
(* Two send_native_token calls of the same sender, running side by side:   *)
(* each reads the sender's transaction count, signs, submits and waits,    *)
(* and the steps of the two interleave freely.                             *)
(***************************************************************************)
\* the transaction send_native_token builds from what the node answers now
send_native_token_transaction(from_private_key, to_address, amount, chain, net, gas_price) ==
    LET from_address == KeyAddress(from_private_key)
        amount_wei == to_wei(amount)
        gas_estimate == NodeEstimateGas(net, from_address, to_address, amount_wei, FALSE, 0)
    IN  EvmTx(from_address, to_address, amount_wei, gas_estimate.gas, gas_price,
              net.nonce, NoData)

\* up to sign_transaction; beside: the other call is under way
SendSign(s) ==
    /\ sends[s].pc = "idle"
    /\ \E t \in {"0xA1", "0xC3"}, amt \in AmountInputs :
        LET tx == send_native_token_transaction("k1", t, amt, ethereum, Net(TRUE), 1)
            beside == \E o \in Senders \ {s} : sends[o].pc \in {"signed", "wait"}
        IN  sends' = [sends EXCEPT ![s] =
                        IF tx.gas = 0
                        THEN [pc |-> "done", tx |-> tx, error |-> "insufficient funds for transfer",
                              raw |-> FALSE, beside |-> beside]
                        ELSE [pc |-> "signed", tx |-> tx, error |-> "", raw |-> FALSE,
                              beside |-> beside]]
    /\ UNCHANGED <<chainVars, call, result, effects, dbVars, transactions, application,
                   webhook>>

\* send_raw_transaction
SendRaw(s) ==
    /\ sends[s].pc = "signed"
    /\ LET refusal == NodeAccept(Net(TRUE), sends[s].tx, ethereum)
       IN  IF refusal = ""
           THEN /\ mempool' = mempool \cup {[tx |-> sends[s].tx, chain |-> ethereum]}
                /\ sends' = [sends EXCEPT ![s].pc = "wait", ![s].raw = TRUE]
           ELSE /\ mempool' = mempool
                /\ sends' = [sends EXCEPT ![s].pc = "done", ![s].raw = TRUE,
                                          ![s].error = refusal]
    /\ UNCHANGED <<head, ledger, balance, nonce, call, result, effects, dbVars,
                   transactions, application, webhook>>

\* wait_for_transaction_receipt returns the receipt, or raises
SendWait(s) ==
    /\ sends[s].pc = "wait"
    /\ sends' = [sends EXCEPT ![s].pc = "done",
                              ![s].error =
                                  IF \E r \in ledger : r.tx = sends[s].tx THEN ""
                                  ELSE "Transaction is not in the chain after 120 seconds"]
    /\ UNCHANGED <<chainVars, call, result, effects, dbVars, transactions, application,
                   webhook>>

NextRace ==
    \/ \E s \in Senders : SendSign(s)
    \/ \E s \in Senders : SendRaw(s)
    \/ \E s \in Senders : SendWait(s)
    \/ IncludePending
    \/ Fund

SpecRace == Init /\ [][NextRace]_vars

(***************************************************************************)
(* The webhook host: main() starts setup_webhook in a thread, sleeps three *)
(* seconds and serves HTTP; do_POST hands each update to a worker.         *)
(***************************************************************************)
\* the thread of run_bot, one await at a time; token: TELEGRAM_TOKEN is set;
\* ok: initialize() reached the Bot API
SetupWebhook ==
    /\ \E token \in BOOLEAN, ok \in BOOLEAN :
        CASE webhook.bot = "setup_application" ->
                /\ application' = IF token THEN "built" ELSE "None"
                /\ webhook' = [webhook EXCEPT !.bot = IF token THEN "initialize"
                                                     ELSE "returned"]
          [] webhook.bot = "initialize" ->
                /\ application' = IF ok THEN "initialized" ELSE application
                /\ webhook' = [webhook EXCEPT !.bot = IF ok THEN "start" ELSE "returned"]
          [] webhook.bot = "start" ->
                /\ application' = "started"
                /\ webhook' = [webhook EXCEPT !.bot = "set_webhook"]
          [] webhook.bot = "set_webhook" ->
                /\ application' = application
                /\ webhook' = [webhook EXCEPT !.bot = "sleep"]
          [] OTHER -> FALSE
    /\ UNCHANGED <<chainVars, call, result, effects, dbVars, transactions, sends>>

\* time.sleep(3) is over: the main thread serves
run_http_server ==
    /\ webhook.http = "sleep"
    /\ webhook' = [webhook EXCEPT !.http = "serve_forever"]
    /\ UNCHANGED <<chainVars, call, result, effects, dbVars, transactions, sends,
                   application>>

\* a POST arrives; the server handles one request at a time
do_POST ==
    /\ webhook.http = "serve_forever"
    /\ webhook.handler \in {"idle", "responded"}
    /\ \E path \in {"/webhook", "/"}, json \in BOOLEAN :
        webhook' =
            IF path # "/webhook"
            THEN [webhook EXCEPT !.handler = "responded", !.status = 404]
            ELSE IF ~json
            THEN [webhook EXCEPT !.handler = "responded", !.status = 500]
            ELSE [webhook EXCEPT !.handler = "result", !.worker = "submitted",
                                 !.work = "none", !.seen = "None",
                                 !.timed_out = FALSE, !.status = 0]
    /\ UNCHANGED <<chainVars, call, result, effects, dbVars, transactions, sends,
                   application>>

\* the worker enters process(): "if application:"
process_update_sync ==
    /\ webhook.worker = "submitted"
    /\ webhook' =
           IF application = "None"
           THEN [webhook EXCEPT !.worker = "finished", !.work = "skipped"]
           ELSE [webhook EXCEPT !.worker = "running", !.work = "process_update",
                                !.seen = application]
    /\ UNCHANGED <<chainVars, call, result, effects, dbVars, transactions, sends,
                   application>>

\* application.process_update returns or raises; either way the worker ends
ProcessDone ==
    /\ webhook.worker = "running"
    /\ webhook' = [webhook EXCEPT !.worker = "finished"]
    /\ UNCHANGED <<chainVars, call, result, effects, dbVars, transactions, sends,
                   application>>

\* future.result(timeout=30) raises TimeoutError; the handler prints and
\* leaves the with block, whose exit is executor.shutdown(wait=True)
ResultTimeout ==
    /\ webhook.handler = "result"
    /\ webhook.worker # "finished"
    /\ webhook' = [webhook EXCEPT !.handler = "exit", !.timed_out = TRUE]
    /\ UNCHANGED <<chainVars, call, result, effects, dbVars, transactions, sends,
                   application>>

\* the with block is left once the worker has ended; then send_response(200)
SendResponse ==
    /\ webhook.handler \in {"result", "exit"}
    /\ webhook.worker = "finished"
    /\ webhook' = [webhook EXCEPT !.handler = "responded", !.status = 200]
    /\ UNCHANGED <<chainVars, call, result, effects, dbVars, transactions, sends,
                   application>>

NextWebhook ==
    \/ SetupWebhook
    \/ run_http_server
    \/ do_POST
    \/ process_update_sync
    \/ ProcessDone
    \/ ResultTimeout
    \/ SendResponse

SpecWebhook == Init /\ [][NextWebhook]_vars

(***************************************************************************)
(* int(amount * 10 ** decimals) on Python floats.  A natural number beyond *)
(* 32 bits is written as seven digits of base 10^6, lowest first; a float  *)
(* is an IEEE 754 double [man, exp] of value man * 2^-exp, man < 2^53.     *)
(***************************************************************************)
\* the decimal amounts m * 10^-e a caller types, m up to this
MaxMantissa == 35

Big(n) == <<n % 1000000, n \div 1000000, 0, 0, 0, 0, 0>>

\* the digits of x * n + c from the i-th on, for small n and c
RECURSIVE TimesFrom(_, _, _, _)
TimesFrom(x, n, i, c) ==
    IF i > Len(x) THEN <<>>
    ELSE <<(x[i] * n + c) % 1000000>> \o TimesFrom(x, n, i + 1, (x[i] * n + c) \div 1000000)

BigTimes(x, n) == TimesFrom(x, n, 1, 0)

BigPlus(x, n) == TimesFrom(x, 1, 1, n)

\* the digits of x \div n up to the i-th, for a small n; r: the remainder
\* of the digits above
RECURSIVE DivFrom(_, _, _, _)
DivFrom(x, n, i, r) ==
    IF i = 0 THEN <<>>
    ELSE Append(DivFrom(x, n, i - 1, (r * 1000000 + x[i]) % n),
                (r * 1000000 + x[i]) \div n)

BigDiv(x, n) == DivFrom(x, n, Len(x), 0)

BigLess(x, y) ==
    \E i \in 1..Len(x) : x[i] < y[i] /\ \A j \in 1..Len(x) : j > i => x[j] = y[j]

BigOdd(x) == x[1] % 2 = 1

\* x * n^k and x \div n^k for n up to 10, three factors at a time
RECURSIVE BigTimesPow(_, _, _)
BigTimesPow(x, n, k) ==
    IF k = 0 THEN x
    ELSE IF k >= 3 THEN BigTimesPow(BigTimes(x, n * n * n), n, k - 3)
    ELSE BigTimesPow(BigTimes(x, n), n, k - 1)

RECURSIVE BigDivPow(_, _, _)
BigDivPow(x, n, k) ==
    IF k = 0 THEN x
    ELSE IF k >= 3 THEN BigDivPow(BigDiv(x, n * n * n), n, k - 3)
    ELSE BigDivPow(BigDiv(x, n), n, k - 1)

TwoTo53 == BigTimesPow(Big(1), 2, 53)

TwoTo54 == BigTimes(TwoTo53, 2)

\* round-half-even of y / 2, where exact tells that y lost no lower bits
HalfEven(y, exact) ==
    IF BigOdd(y) /\ (~exact \/ BigOdd(BigDiv(y, 2))) THEN BigPlus(BigDiv(y, 2), 1)
    ELSE BigDiv(y, 2)

\* a doubled until it reaches lim: [a |-> a * 2^k, k |-> k]
RECURSIVE Doubled(_, _, _)
Doubled(a, lim, k) ==
    IF BigLess(BigTimes(a, 1024), lim) THEN Doubled(BigTimes(a, 1024), lim, k + 10)
    ELSE IF BigLess(a, lim) THEN Doubled(BigTimes(a, 2), lim, k + 1)
    ELSE [a |-> a, k |-> k]

\* float("m e-e"): the double nearest to the decimal, from 54 bits of it
binary64(amount) ==
    LET d == Doubled(Big(amount.m), BigTimesPow(TwoTo53, 10, amount.e), 0)
        y == BigDivPow(d.a, 10, amount.e)
    IN  [man |-> HalfEven(y, BigTimesPow(y, 10, amount.e) = d.a), exp |-> d.k - 1]

\* x halved until it is below 2^54: [y |-> x \div 2^j, j |-> j, exact |-> no
\* bit was lost]
RECURSIVE Halved(_, _, _)
Halved(y, j, exact) ==
    IF ~BigLess(BigDiv(y, 1024), TwoTo54)
    THEN Halved(BigDiv(y, 1024), j + 10, exact /\ BigTimes(BigDiv(y, 1024), 1024) = y)
    ELSE IF ~BigLess(y, TwoTo54) THEN Halved(BigDiv(y, 2), j + 1, exact /\ ~BigOdd(y))
    ELSE [y |-> y, j |-> j, exact |-> exact]

\* int(f * 10 ** decimals): the product is rounded to a double, then truncated
int_of_product(f, decimals) ==
    LET h == Halved(BigTimesPow(f.man, 10, decimals), 0, TRUE)
        q == IF BigLess(h.y, TwoTo53) THEN h.y
             ELSE BigTimes(HalfEven(h.y, h.exact), 2)
        s == h.j - f.exp
    IN  IF s >= 0 THEN BigTimesPow(q, 2, s) ELSE BigDivPow(q, 2, 0 - s)

\* the decimal counts of the send paths: the token's, lamports, and a token
\* declaring 18
DecimalsInputs == {TokenDecimals, 9, 18}

\* amount_lamports / amount_raw for an amount typed as a decimal
ScaleAmount ==
    /\ call.pc = "idle"
    /\ \E m \in 1..MaxMantissa, e \in 0..2, decimals \in DecimalsInputs :
        Finish([op |-> "int(amount * 10 ** decimals)", pc |-> "done",
                amount |-> Amt(m, e), decimals |-> decimals],
               Out([amount_raw |-> int_of_product(binary64(Amt(m, e)), decimals)], {}))

NextScale ==
    \/ ScaleAmount
    \/ Return

SpecScale == Init /\ [][NextScale]_vars

(***************************************************************************)
(* Properties                                                              *)
(***************************************************************************)
Done == call.pc = "done"

\* The error kinds of the design, read off the message an envelope carries.
ErrorKind(err) ==
    IF err.msg = "Unsupported chain: " THEN "UnsupportedChain"
    ELSE IF err.msg \in {"Invalid address", "Invalid recipient address"} THEN "InvalidAddress"
    ELSE IF err.msg \in {"Transaction not found", "Transaction with hash not found"}
    THEN "NotFound"
    ELSE IF err.msg \in {"insufficient funds for transfer",
                         "insufficient funds for gas * price + value"}
    THEN "InsufficientFunds"
    ELSE IF err.msg \in {ConnectionError.msg,
                         "Transaction is not in the chain after 120 seconds"}
    THEN "NetworkUnavailable"
    ELSE "Other"

Failed(r) == "success" \in DOMAIN r /\ ~r.success

FailedAs(r, kind) == Failed(r) /\ ErrorKind(r.error) = kind

\* The operations that take a chain, and whether one serves the chain c
\* when c is spelled as configured.
Serves(op, c) ==
    \/ c \in web3_connections
    \/ c = solana /\ op \in {"get_deposit_address", "get_transaction_status",
                             "get_all_balances"}

\* C1: chain resolution is case-insensitive: an operation called with an
\* upper- or lower-case variant of a chain it serves does not report an
\* unsupported chain.
C1_CaseInsensitive ==
    (Done /\ call.op \in {"estimate_gas", "get_transaction_status", "get_deposit_address",
                          "get_eth_balance", "get_token_balance"}
          /\ Serves(call.op, Lower(call.chain)))
        => ~FailedAs(result, "UnsupportedChain")

\* C2: for a chain string that is no configured identifier every operation
\* returns an unsupported-chain failure and makes no RPC call, signs nothing
\* and submits nothing.
C2_UnsupportedFailsFast ==
    (Done /\ call.chain \notin SupportedChains)
        => FailedAs(result, "UnsupportedChain") /\ effects = {}

\* an envelope is a success with no error and no failed sub-result, or a
\* failure with a non-empty error
WellFormed(r) ==
    /\ "success" \in DOMAIN r
    /\ r.success =>
        /\ "error" \notin DOMAIN r
        /\ "balances" \in DOMAIN r => r.balances.native.success
    /\ ~r.success => "error" \in DOMAIN r /\ r.error.msg # ""

\* C3: every operation returns exactly one of the two envelopes, and a
\* success never wraps a failed sub-result.
C3_EnvelopeShape == Done => WellFormed(result)

\* C4: no fault leaves an operation as an exception: a ciphertext that does
\* not decrypt, a storage error while listing wallets, a malformed amount or
\* an RPC failure in /send, /gas and /balance each end in a failure envelope
\* or a reply to the user.
C4_NoFaultEscapes == Done => "raised" \notin DOMAIN result

\* the chain holds no transaction with the identifier the call asked for
UnknownTx == ~\E r \in ledger : r.tx = call.tx_hash /\ r.chain = call.chain

\* C5: get_transaction_status for a transaction the chain does not know is
\* never a success and never carries a status; when the lookup came back
\* empty or raised not-found the failure is of kind not-found, on the EVM
\* chains and on solana.
C5_UnknownIsNotFound ==
    (Done /\ call.op = "get_transaction_status" /\ call.chain \in SupportedChains
          /\ UnknownTx)
        => /\ Failed(result)
           /\ "status" \notin DOMAIN result
           /\ (call.lookup.kind = "none"
                \/ (call.lookup.kind = "raise" /\ call.lookup.msg # ConnectionError.msg))
               => FailedAs(result, "NotFound")

\* a transaction included on another chain is asked for on solana, and on an
\* EVM chain the lookup raised
C5_Witness ==
    /\ Done /\ call.op = "get_transaction_status" /\ call.chain = solana
    /\ \E r \in ledger : r.tx = call.tx_hash /\ r.chain \in web3_connections
    /\ call.lookup.kind = "none"
    /\ FailedAs(result, "NotFound")

\* C6: for an EVM transaction with a receipt, confirmations are the head
\* height read after the receipt minus the inclusion height, never negative,
\* and the status is confirmed exactly for a receipt status flag of 1; the
\* only failure is a fault of the head query.
C6_EvmConfirmations ==
    (Done /\ call.op = "get_transaction_status" /\ call.chain \in web3_connections
          /\ call.lookup.kind = "found")
        => IF result.success
           THEN /\ result.confirmations = head - call.lookup.entry.block
                /\ result.confirmations >= 0
                /\ result.block_number = call.lookup.entry.block
                /\ result.status = (IF call.lookup.entry.ok THEN "confirmed" ELSE "failed")
           ELSE FailedAs(result, "NetworkUnavailable")

\* a reverted transaction with two blocks on top of it
C6_Witness ==
    /\ Done /\ call.op = "get_transaction_status" /\ call.chain \in web3_connections
    /\ call.lookup.kind = "found"
    /\ result.success /\ result.status = "failed" /\ result.confirmations = MaxHead - 1

\* C7: on solana an observed transaction is confirmed exactly when it
\* reports no execution error, failed otherwise, and confirmations are the
\* sentinel 1 whatever the chain height.
C7_SolanaStatus ==
    (Done /\ call.op = "get_transaction_status" /\ call.chain = solana
          /\ call.lookup.kind = "found")
        => /\ result.success
           /\ result.status = (IF call.lookup.entry.ok THEN "confirmed" ELSE "failed")
           /\ result.confirmations = 1

\* a solana transaction with an execution error, with no slot above it
C7_Witness ==
    /\ Done /\ call.op = "get_transaction_status" /\ call.chain = solana
    /\ call.lookup.kind = "found" /\ ~call.lookup.entry.ok
    /\ head - call.lookup.entry.block = 0
    /\ result.success /\ result.status = "failed" /\ result.confirmations = 1

\* C8: token transfer and fee estimation for solana fail fast as an
\* unsupported operation, with no contract call, no signing, no submission.
C8_SolanaUnsupportedOperation ==
    (Done /\ call.op \in {"estimate_gas", "send_token"} /\ call.chain = solana)
        => /\ FailedAs(result, "UnsupportedOperation")
           /\ effects \cap {"contract_call", "sign", "send_raw"} = {}

\* C9: a recipient that fails validation makes send_native_token and
\* send_token return an invalid-address failure, with nothing signed and
\* nothing sent (the call being one that reaches the recipient check: a
\* served chain, a well-formed key, a reachable node, a deployed token).
C9_RecipientValidatedFirst ==
    (Done /\ call.op \in {"send_native_token", "send_token"}
          /\ call.chain \in web3_connections /\ KeyAddress(call.from_private_key) # ""
          /\ call.up /\ call.token_address \in {"", "0xT1"}
          /\ ~is_address(call.to_address))
        => /\ FailedAs(result, "InvalidAddress")
           /\ effects \cap {"sign", "send_raw"} = {}

\* the call got as far as asking the node for its prices and estimates
ReachedNode ==
    /\ call.chain \in web3_connections
    /\ KeyAddress(call.from_private_key) # ""
    /\ is_address(call.to_address)

\* C10: a send_native_token call that reaches the node with an amount above
\* the sender's balance ends in that step with a failure, mentioning
\* insufficient funds when the node answered; it signs nothing, submits
\* nothing and produces no receipt.
C10_Step ==
    (/\ call.pc = "idle" /\ call'.op = "send_native_token" /\ ReachedNode'
     /\ WLess(NodeBalance(Net(TRUE), KeyAddress(call'.from_private_key)),
              to_wei(call'.amount)))
        => /\ call'.pc = "done"
           /\ Failed(result')
           /\ call'.up => FailedAs(result', "InsufficientFunds")
           /\ effects' \cap {"sign", "send_raw"} = {}
           /\ mempool' = mempool /\ ledger' = ledger
           /\ "block_number" \notin DOMAIN result'

C10_InsufficientFunds == [][C10_Step]_vars

\* two ether are sent from an account that holds one
C10_Witness ==
    /\ Done /\ call.op = "send_native_token" /\ ReachedNode /\ call.up
    /\ balance = WScale(1, 18) /\ call.amount = Amt(2, 0)
    /\ result.error.msg = "insufficient funds for transfer"

\* the call handed a transaction to the node, which accepted it
Submitted == call.tx_hash # ExtTx(0)

\* C11: send_native_token and send_token return a success envelope only
\* with the receipt of the submitted transaction on the chain, and its status
\* is confirmed exactly when the receipt's flag is 1 and failed otherwise.
C11_SuccessAfterReceipt ==
    (Done /\ call.op \in {"send_native_token", "send_token"} /\ result.success)
        => /\ Submitted
           /\ HasReceipt(call)
           /\ result.tx_hash = call.tx_hash
           /\ result.status = (IF Receipt(call).ok THEN "confirmed" ELSE "failed")
           /\ result.block_number = Receipt(call).block

\* a native transfer that reverted on the chain is returned as failed
C11_Witness ==
    /\ Done /\ call.op = "send_native_token" /\ result.success
    /\ ~Receipt(call).ok /\ result.status = "failed"

\* C12: when the wait for the receipt ends without one after the
\* transaction was submitted, the outcome is of the network-unavailable kind
\* and carries the identifier of the transaction.
C12_ExpiryNamesTransaction ==
    (Done /\ call.op \in {"send_native_token", "send_token"} /\ Submitted
          /\ ~result.success)
        => /\ FailedAs(result, "NetworkUnavailable")
           /\ "tx_hash" \in DOMAIN result
           /\ result.tx_hash = call.tx_hash

\* C19: no envelope of a send carries the private key: the sender field is
\* the public address, never the key the call was given.
C19_NoKeyInEnvelope ==
    (Done /\ call.op \in {"send_native_token", "send_token", "send_sol"}
          /\ "from_address" \in DOMAIN result)
        => result.from_address # call.from_private_key

\* C20: the status of every success envelope of a send or of
\* get_transaction_status is pending, confirmed or failed.
C20_StatusVocabulary ==
    (Done /\ call.op \in {"send_native_token", "send_token", "send_sol",
                          "get_transaction_status"}
          /\ result.success)
        => result.status \in {"pending", "confirmed", "failed"}

\* C13: every call of send_native_token and send_token that waits for a
\* receipt returns an envelope, also when no receipt ever appears.
C13_SendsReturn == (call.pc = "wait") ~> (call.pc = "done")

\* a send returned although its transaction was never included
C13_Witness ==
    /\ Done /\ call.op \in {"send_native_token", "send_token"} /\ Submitted
    /\ ~HasReceipt(call) /\ call.tx_hash \in {p.tx : p \in mempool}
    /\ Failed(result)

\* C14: a successful native estimate returns a total cost of 21000 times
\* the unit price placed in the transaction skeleton, in wei and as ether.
C14_EstimateIsBaselineTimesPrice ==
    (Done /\ result.success
          /\ \/ call.op = "BalanceChecker.estimate_gas"
             \/ call.op = "estimate_gas" /\ call.token_address = "")
        => /\ result.total_cost_wei = IntrinsicGas * call.price1
           /\ result.total_cost_eth = from_wei(W(0, IntrinsicGas * call.price1))

\* C15: a native balance query on an address holding nothing returns a
\* success with balance 0, in the smallest unit and in decimal form, from
\* get_eth_balance on the EVM chains and from get_sol_balance on solana.
C15_ZeroBalanceIsSuccess ==
    /\ (Done /\ call.op = "get_eth_balance" /\ call.chain \in web3_connections
             /\ is_address(call.address) /\ call.up
             /\ NodeBalance(Net(TRUE), call.address) = WZero)
        => /\ result.success
           /\ result.balance_wei = WZero
           /\ result.balance_eth = from_wei(WZero)
    /\ (Done /\ call.op = "get_sol_balance" /\ call.response.kind = "result"
             /\ call.response.value = 0)
        => /\ result.success
           /\ result.balance_lamports = 0
           /\ result.balance_sol = [lamports |-> 0, e |-> 9]

\* solana answered 0 lamports
C15_Witness ==
    /\ Done /\ call.op = "get_sol_balance" /\ call.response.kind = "result"
    /\ call.response.value = 0
    /\ result.success /\ result.balance_lamports = 0

\* C16: the wallet directory holds at most one record for each owner,
\* wallet name and chain.
C16_NamesUnique ==
    \A i, j \in 1..Len(sqlite_wallets) :
        (/\ sqlite_wallets[i].user_id = sqlite_wallets[j].user_id
         /\ sqlite_wallets[i].wallet_name = sqlite_wallets[j].wallet_name
         /\ sqlite_wallets[i].chain = sqlite_wallets[j].chain) => i = j

\* C17: the address of every stored wallet record is the address derived
\* from the private key the record holds, and is not empty.
C17_AddressDerivedFromKey ==
    \A w \in wallets :
        w.address # "" /\ w.address = KeyAddress(w.encrypted_private_key.pt)

\* C18: in every state, also after restarts, every stored ciphertext
\* decrypts to the private key it was made from.
C18_StoredKeysDecrypt ==
    \A w \in wallets : decrypt_private_key(w.encrypted_private_key).kind = "value"

\* C21: once /send has answered with its success message, the transactions
\* table holds a record of the transaction it sent; a /send that failed
\* before anything was submitted leaves no record.
C21_SendsAreRecorded ==
    (Done /\ call.op = "/send" /\ "reply" \in DOMAIN result) =>
        /\ result.reply = "Transaction Sent Successfully" =>
               \E t \in transactions : t.tx_hash = result.detail.tx_hash
        /\ (result.reply # "Transaction Sent Successfully" /\ ~Submitted) =>
               transactions = {}

\* C22: with the database reachable, /generate answers that the wallets were
\* generated and leaves, for each of the four EVM chains, a record named
\* auto_<chain> of the caller on that chain, reported as created.
C22_GenerateCreatesFour ==
    (Done /\ call.op = "/generate" /\ call.db_up) =>
        /\ result.reply = "Wallets Generated Successfully"
        /\ \A chain \in supported_chains :
               /\ \E w \in wallets : /\ w.user_id = call.user
                                     /\ w.name = AutoName(chain)
                                     /\ w.chain = chain
               /\ [chain |-> chain, status |-> "created"] \in result.detail

\* C23: when two sends of the same sender run side by side, the transactions
\* the two hand to send_raw_transaction carry distinct nonces.
C23_DistinctNonces ==
    \A a \in Senders : \A b \in Senders \ {a} :
        (sends[a].pc \in {"wait", "done"} /\ sends[b].pc \in {"wait", "done"}
         /\ sends[a].raw /\ sends[b].raw /\ sends[b].beside) =>
            sends[a].tx.nonce # sends[b].tx.nonce

\* a /connect or /generate command completes and stores a wallet on the chain
CommandStores(chain) ==
    /\ ConnectCommand \/ GenerateCommandEnd
    /\ \E w \in wallets' \ wallets : w.chain = chain

\* C24: for each of the five supported chains, Solana included, a registered
\* user with room in the directory can issue a command that stores a wallet
\* record on that chain.
C24_EveryChainCanBeOnboarded ==
    \A chain \in SupportedChains :
        (call.pc = "idle" /\ users # {} /\ wallets = {} /\ sqlite_wallets = <<>>) =>
            ENABLED CommandStores(chain)

\* the same for the four EVM chains alone, which holds
EvmChainsCanBeOnboarded ==
    \A chain \in supported_chains :
        (call.pc = "idle" /\ users # {} /\ wallets = {} /\ sqlite_wallets = <<>>) =>
            ENABLED CommandStores(chain)

\* C27: /connect answers with a failure exactly when it stored no record; a
\* /connect that inserted a record answers with the success message.
C27_ConnectReplyMatchesStore ==
    (Done /\ call.op = "/connect") =>
        (call.stored <=> result.reply = "Wallet Connected Successfully")

RemoveOps == {"remove_wallet", "SyncDatabaseManager.remove_wallet",
              "WalletManager.remove_wallet"}

\* C26: in each of the three managers, remove_wallet for an (owner, name,
\* chain) the directory does not hold returns a failure, and a remove_wallet
\* that reports success has found the record and left none matching.
C26_RemoveReportsWhatItDid ==
    (Done /\ call.op \in RemoveOps) =>
        /\ ~call.found => Failed(result)
        /\ result.success =>
               /\ call.found
               /\ Matching(call.user, call.name, call.chain) = {}
               /\ WalletManager_matching(call.user, call.name, call.chain) = {}

\* what a completed store call may have touched: the record it returns is the
\* caller's, and every row that left either directory was the caller's
C28_Step ==
    (call.pc # "done" /\ call'.pc = "done") =>
        /\ (call'.op \in {"get_wallet", "SyncDatabaseManager.get_wallet"}
            /\ result'.success) => result'.wallet.user_id = call'.user
        /\ \A w \in wallets \ wallets' : w.user_id = call'.user
        /\ LET Others(w) == w.user_id # call'.user
           IN  SelectSeq(sqlite_wallets', Others) = SelectSeq(sqlite_wallets, Others)

C29_TimeoutBoundsTheWait ==
    (webhook.timed_out /\ webhook.handler = "exit") => ENABLED SendResponse

\* C30: no update is handed to application.process_update before initialize
\* and start have completed, and no update posted to /webhook is answered
\* 200 after being skipped because the global application was unset.
C30_NoEarlyOrDroppedUpdate ==
    /\ webhook.work = "process_update" => webhook.seen = "started"
    /\ webhook.status = 200 => webhook.work # "skipped"

\* the decimal amount of the call in smallest units, exactly
ExactUnits == BigTimesPow(Big(call.amount.m), 10, call.decimals - call.amount.e)

\* C25: the smallest-unit integer a send path computes from a decimal amount
\* and a decimal count is within one smallest unit of the amount.
C25_ScalingWithinOneUnit ==
    (Done /\ call.op = "int(amount * 10 ** decimals)") =>
        \/ result.amount_raw = ExactUnits
        \/ BigPlus(result.amount_raw, 1) = ExactUnits
        \/ result.amount_raw = BigPlus(ExactUnits, 1)

====
